---- MODULE Spec2Model ----
(***************************************************************************)
(* AudioCaptureKit capture session orchestrator (CompositeSession) with    *)
(* its two WASAPI-style providers, the mix-loop worker, the duration timer *)
(* worker, the ring buffers and the streaming writer.                      *)
(*                                                                         *)
(* Granularity.  Every action is one critical section of the source (one   *)
(* lock()..unlock() span) or a run of statements no other thread can       *)
(* observe.  set_state (state write under the session lock followed by the *)
(* delegate call) is one step.  The monotonic clock is coarse: it advances *)
(* only between control calls and inside stop_capture (whose joins and     *)
(* file read-back take whole sleep periods); configure, start, pause and   *)
(* resume take no clock time.                                              *)
(*                                                                         *)
(* Eight specifications share the module.  Spec is the orchestrator with   *)
(* its threads, configured without an encryptor on a healthy volume.       *)
(* RecordSpec is the same orchestrator from configure to stop, with or     *)
(* without an encryptor, on a volume that may start failing.  StopSpec is  *)
(* one recording under a fair scheduler.  RingSpec drives one RingBuffer,  *)
(* WriterSpec one EncryptedFileWriter and MixerSpec the stereo mixer and   *)
(* the PCM conversion through arbitrary calls.  FlowSpec follows numbered  *)
(* samples from the provider callbacks through the rings and the mix       *)
(* passes to the payload.  LockSpec is the session's threads reduced to    *)
(* the mutex operations they perform, in source order.                     *)
(* Each specification holds the state of the others at its initial value.  *)
(***************************************************************************)
EXTENDS Integers, Sequences, FiniteSets, TLC

\* ------------------------------------------------------------------ bounds
MaxCalls == 5         \* control calls (accepted or rejected), per behaviour
MaxEvents == 2        \* clock ticks + provider callbacks + timer updates, per behaviour
MaxBuf == 1           \* frames delivered by one provider callback
RingFrames == 2       \* stands for sample_rate * 5 (frames held by a ring)
ChunkFrames == 1      \* stands for sample_rate * 0.1 (frames per mix pass)
FullScale == 2        \* float 1.0 in sample units (samples are k/FullScale)

INT16_MAX == 32767
WAV_HEADER_SIZE == 44

\* Option<T>: None is the empty sequence, Some(x) the one-element sequence
None == <<>>
Some(x) == <<x>>
Get(o) == o[1]

\* ------------------------------------------------------------------ helpers
Min(a, b) == IF a < b THEN a ELSE b
Max(a, b) == IF a > b THEN a ELSE b

\* saturating_sub on usize
SatSub(a, b) == IF a > b THEN a - b ELSE 0

\* u64 / u32 byte counts as two 16-bit halves, so that 2^32 can be reached
Half == 2^16
Wide(n) == [hi |-> n \div Half, lo |-> n % Half]
WideAdd(a, b) ==
    [hi |-> a.hi + b.hi + ((a.lo + b.lo) \div Half), lo |-> (a.lo + b.lo) % Half]
\* a - b for a >= b
WideSub(a, b) ==
    IF a.lo >= b.lo THEN [hi |-> a.hi - b.hi, lo |-> a.lo - b.lo]
    ELSE [hi |-> a.hi - b.hi - 1, lo |-> a.lo + Half - b.lo]
\* `as u32`
AsU32(a) == [hi |-> a.hi % Half, lo |-> a.lo]
\* u32::to_le_bytes and its inverse
ToLeBytes(a) == <<a.lo % 256, a.lo \div 256, a.hi % 256, a.hi \div 256>>
FromLeBytes(b) == [hi |-> b[3] + 256 * b[4], lo |-> b[1] + 256 * b[2]]

\* ------------------------------------------------------------------ RingBuffer
RingNew(c) ==
    [buffer |-> [i \in 0..(c - 1) |-> 0],
     write_index |-> 0, read_index |-> 0, available |-> 0, capacity |-> c]

RECURSIVE RingStore(_, _, _)
\* the for-loop of write: store each sample at write_index, advance modulo capacity
RingStore(rb, samples, k) ==
    IF k > Len(samples) THEN rb
    ELSE RingStore([rb EXCEPT !.buffer[rb.write_index] = samples[k],
                              !.write_index = (rb.write_index + 1) % rb.capacity],
                   samples, k + 1)

\* a write that shrinks `available` on overflow without moving the head
RingWrite_NoHeadAdvance(r, samples) ==
    IF Len(samples) = 0 THEN r
    ELSE LET tail == IF Len(samples) > r.capacity
                       THEN SubSeq(samples, Len(samples) - r.capacity + 1, Len(samples))
                       ELSE samples
             overflow == SatSub(r.available + Len(tail), r.capacity)
             shrunk == [r EXCEPT !.available = r.available - overflow]
             stored == RingStore(shrunk, tail, 1)
         IN [stored EXCEPT !.available = stored.available + Len(tail)]

\* a write that keeps the first `capacity` samples of an oversized input
RingWrite_KeepsFirst(r, samples) ==
    IF Len(samples) = 0 THEN r
    ELSE LET tail == IF Len(samples) > r.capacity
                       THEN SubSeq(samples, 1, r.capacity)
                       ELSE samples
             overflow == SatSub(r.available + Len(tail), r.capacity)
             moved == IF overflow > 0
                        THEN [r EXCEPT !.read_index = (r.read_index + overflow) % r.capacity,
                                       !.available = r.available - overflow]
                        ELSE r
             stored == RingStore(moved, tail, 1)
         IN [stored EXCEPT !.available = stored.available + Len(tail)]

\* a write that, when full, discards the incoming samples instead of the oldest
RingWrite_DropsNewest(r, samples) ==
    LET room == r.capacity - r.available
        kept == SubSeq(samples, 1, IF Len(samples) < room THEN Len(samples) ELSE room)
        stored == RingStore(r, kept, 1)
    IN [stored EXCEPT !.available = stored.available + Len(kept)]

RingWrite(rb, samples) ==
    IF Len(samples) = 0 THEN rb
    ELSE LET tail == IF Len(samples) > rb.capacity
                       THEN SubSeq(samples, Len(samples) - rb.capacity + 1, Len(samples))
                       ELSE samples
             overflow == SatSub(rb.available + Len(tail), rb.capacity)
             dropped == IF overflow > 0
                          THEN [rb EXCEPT !.read_index = (rb.read_index + overflow) % rb.capacity,
                                          !.available = rb.available - overflow]
                          ELSE rb
             stored == RingStore(dropped, tail, 1)
         IN [stored EXCEPT !.available = stored.available + Len(tail)]

\* a read that copies from the start of the storage instead of the head
RingRead_FromStart(r, count) ==
    LET to_read == Min(count, r.available)
    IN IF to_read = 0 THEN <<r, <<>>>>
       ELSE <<[r EXCEPT !.read_index = (r.read_index + to_read) % r.capacity,
                        !.available = r.available - to_read],
              [i \in 1..to_read |-> r.buffer[(i - 1) % r.capacity]]>>

\* read(count): <<buffer after the read, samples returned>>
RingRead(rb, count) ==
    LET to_read == Min(count, rb.available)
    IN IF to_read = 0 THEN <<rb, <<>>>>
       ELSE <<[rb EXCEPT !.read_index = (rb.read_index + to_read) % rb.capacity,
                         !.available = rb.available - to_read],
              [i \in 1..to_read |-> rb.buffer[(rb.read_index + (i - 1)) % rb.capacity]]>>

RingCount(rb) == rb.available

\* ------------------------------------------------------------------ StereoMixer
\* a mix that ignores the left sample of a trailing half frame of the system input
MixMicWithStereoSystem_WholeFramesOnly(mic, sys) ==
    LET frames == Max(Len(mic), Len(sys) \div 2)
        m(i) == IF i <= Len(mic) THEN mic[i] ELSE 0
        l(i) == IF 2 * i <= Len(sys) THEN sys[2 * i - 1] ELSE 0
        r(i) == IF 2 * i <= Len(sys) THEN sys[2 * i] ELSE 0
    IN [k \in 1..(2 * frames) |->
          IF k % 2 = 1 THEN m((k + 1) \div 2) + l((k + 1) \div 2)
                       ELSE m(k \div 2) + r(k \div 2)]

\* mix_mic_with_stereo_system: frame count max(|mic|, |sys|/2), missing samples are 0
MixMicWithStereoSystem(mic, sys) ==
    LET frames == Max(Len(mic), Len(sys) \div 2)
        m(i) == IF i <= Len(mic) THEN mic[i] ELSE 0
        l(i) == IF 2 * i - 1 <= Len(sys) THEN sys[2 * i - 1] ELSE 0
        r(i) == IF 2 * i <= Len(sys) THEN sys[2 * i] ELSE 0
    IN [k \in 1..(2 * frames) |->
          IF k % 2 = 1 THEN m((k + 1) \div 2) + l((k + 1) \div 2)
                       ELSE m(k \div 2) + r(k \div 2)]

\* truncation toward zero of a / b (b > 0), as the float-to-int cast does
TruncDiv(a, b) == IF a >= 0 THEN a \div b ELSE -((-a) \div b)

\* a conversion that scales without clamping, so that the cast wraps
ToInt16_NoClamp(s) ==
    LET scaled == TruncDiv(s * INT16_MAX, FullScale)
    IN scaled

\* one sample: clamp to [-1, 1], scale by INT16_MAX, cast to i16
ToInt16(s) ==
    LET clamped == Max(-FullScale, Min(FullScale, s))
    IN TruncDiv(clamped * INT16_MAX, FullScale)

\* convert_to_int16_pcm: two little-endian bytes per sample
ConvertToInt16Pcm(samples) ==
    [k \in 1..(2 * Len(samples)) |->
        LET u == ToInt16(samples[(k + 1) \div 2]) % 65536
        IN IF k % 2 = 1 THEN u % 256 ELSE u \div 256]

\* ------------------------------------------------------------------ state
VARIABLES
    state,              \* SessionState.state: [tag, duration_secs]
    config,             \* CompositeSession.config (None before configure)
    delegate,           \* a delegate is installed
    dropped,            \* the CompositeSession value has been dropped
    capture_start,      \* SessionState.capture_start (None or an instant)
    paused_duration,    \* SessionState.paused_duration
    last_pause_time,    \* SessionState.last_pause_time (None or an instant)
    diag,               \* SessionState.diagnostics
    mic_buffer,         \* mic ring
    system_buffer,      \* system ring (stereo interleaved)
    writer,             \* CompositeSession.writer (None or an EncryptedFileWriter)
    mic_running,        \* mic provider's capture thread is alive
    system_running,     \* system provider's capture thread is alive
    processing_running, \* AtomicBool of the mix-loop worker
    timer_running,      \* AtomicBool of the timer worker
    procPc,             \* mix-loop worker: none | idle | pass | counted | exited
    procAvailable,      \* mix-loop worker's system_frames_available
    procFrames,         \* mix-loop worker's frames_to_process
    timerPc,            \* timer worker: none | idle | emit | exited
    ctl,                \* control thread: idle or the step of the call in progress
    arg,                \* the configuration passed to the configure in progress
    duration,           \* local `duration` of pause_capture / resume_capture
    ret,                \* what the step just taken returned to the caller, if it
                        \* ended a control call: [op, val, duration_secs]
    clock,              \* monotonic clock (Instant::now)
    log,                \* calls received by the delegate, in order
    calls,              \* control calls made so far
    pausedTicks,        \* clock ticks of this capture that passed in state Paused
    stopInvokedAt,      \* clock when the stop_capture in progress was invoked
    metadata_file,      \* the sidecar <recording>.metadata.json exists on disk
    file_path,          \* CompositeSession.file_path: None or the file name
    recording,          \* the file at file_path once close has patched it
    disk_ok,            \* the output volume accepts writes
    error_log,          \* the lines log::error! has emitted, by error kind
    \* --- a RingBuffer exercised on its own (RingSpec)
    rb,                 \* the RingBuffer
    rbWritten,          \* samples written so far; the k-th sample written has value k
    rbBase,             \* samples written before the last reset
    rbRead,             \* samples returned by reads since the last reset, in order
    rbOverflow,         \* a write since the last reset had to drop samples
    rbOp,               \* the last call: [op, n, out]
    \* --- an EncryptedFileWriter exercised on its own (WriterSpec)
    fw,                 \* the writer: [encrypted, has_file, total_bytes_written, is_open]
    fwFile,             \* the file on disk: None or [riff_size, data_size, payload]
    fwHist,             \* the successful writes since open: [data, out] in call order
    fwIoFailed,         \* a write_raw has failed since open
    fwFailedAt,         \* None, or the number of records in the file when the
                        \* encryptor last returned an error
    fwOp,               \* the last call: [op, val, n]
    \* --- mix_mic_with_stereo_system called on its own (MixerSpec)
    mxMic,              \* the mono mic argument of the last call
    mxSys,              \* the interleaved stereo system argument of the last call
    mxOut,              \* what the last call returned
    mxPcm,              \* convert_to_int16_pcm of it: None or the bytes
    \* --- the threads of a session seen through their mutexes (LockSpec)
    lkHolder,           \* per mutex: the thread holding it, or "free"
    lkAlive,            \* per thread: it has been started and not yet joined
    lkProg,             \* per thread: the lock steps of what it is executing
    lkPc,               \* per thread: the step of lkProg it is about to take
    lkSession,          \* the lifecycle phase the last control call leads to, and the enable flags
    \* --- the path of the samples from the callbacks to the payload (FlowSpec)
    flCfg,              \* [enable_system_capture, chunk_size, buffer_capacity]
    flMic,              \* mic ring
    flSys,              \* system ring
    flMicIn,            \* mic frames delivered so far; the k-th has value k
    flSysIn,            \* system frames delivered so far; the k-th is (10(2k-1), 10(2k))
    flOverflow,         \* per side: a ring write has dropped samples
    flPhase,            \* capturing | flush (providers stopped, worker joined) | done
    flPc,               \* the pass in progress: idle | counted | read_system
    flFrames,           \* frames_to_process of the pass in progress
    flSysRead,          \* system_samples of the pass in progress
    flOut               \* the stereo samples of the blocks written, in file order

sessVars == <<state, capture_start, paused_duration, last_pause_time, diag>>
ringVars == <<mic_buffer, system_buffer>>
provVars == <<mic_running, system_running>>
procVars == <<processing_running, procPc, procAvailable, procFrames>>
timerVars == <<timer_running, timerPc>>
ctlVars == <<ctl, arg, duration>>
histVars == <<calls, pausedTicks, stopInvokedAt>>
ringUnitVars == <<rb, rbWritten, rbBase, rbRead, rbOverflow, rbOp>>
writerUnitVars == <<fw, fwFile, fwHist, fwIoFailed, fwFailedAt, fwOp>>
mixerUnitVars == <<mxMic, mxSys, mxOut, mxPcm>>
lockUnitVars == <<lkHolder, lkAlive, lkProg, lkPc, lkSession>>
flowUnitVars == <<flCfg, flMic, flSys, flMicIn, flSysIn, flOverflow, flPhase, flPc, flFrames,
                  flSysRead, flOut>>
unitVars == <<ringUnitVars, writerUnitVars, mixerUnitVars, lockUnitVars, flowUnitVars>>
fileVars == <<metadata_file, file_path, recording, disk_ok, error_log>>
sessionVars == <<sessVars, config, delegate, dropped, ringVars, writer, provVars,
                 procVars, timerVars, ctlVars, ret, clock, log, histVars, fileVars>>
vars == <<sessionVars, unitVars>>

\* CaptureState values
St(tag) == [tag |-> tag, duration_secs |-> 0]
StDur(tag, d) == [tag |-> tag, duration_secs |-> d]

Tags == {"Idle", "Configuring", "Ready", "Capturing", "Paused", "Stopping",
         "Completed", "Failed"}

\* CaptureConfiguration values offered to configure: without an encryptor ...
ConfigInputs ==
    [sample_rate : {0, 48000}, bit_depth : {8, 16}, channels : {2, 3},
     encryptor : {FALSE},
     enable_mic_capture : BOOLEAN, enable_system_capture : BOOLEAN]

\* ... and with one (encryptor = Some(..))
EncryptedConfigInputs ==
    [sample_rate : {48000}, bit_depth : {16}, channels : {2},
     encryptor : {TRUE},
     enable_mic_capture : BOOLEAN, enable_system_capture : BOOLEAN]

\* CaptureConfiguration::validate
Validate(c) ==
    /\ c.sample_rate > 0
    /\ c.bit_depth \in {16, 24, 32}
    /\ c.channels \in {1, 2}

\* (sample_rate * 5.0) as usize and (sample_rate * 0.1) as usize, scaled down
BufferCapacity(c) == RingFrames
ChunkSize(c) == ChunkFrames

\* SessionState::elapsed_duration at instant `now`
ElapsedDuration(now) ==
    IF capture_start = None THEN 0
    ELSE (now - Get(capture_start)) - paused_duration

\* what a control call returned; the last three fields are the RecordingResult's
\* file name and metadata.is_encrypted / metadata.encryption_algorithm
Ret(op, val) ==
    [op |-> op, val |-> val, duration_secs |-> 0, file_name |-> <<>>,
     is_encrypted |-> FALSE, encryption_algorithm |-> None]
\* the step returned nothing to the caller
NoRet == Ret("none", "none")

SessionInit ==
    /\ metadata_file = FALSE
    /\ file_path = None
    /\ recording = None
    /\ disk_ok = TRUE
    /\ error_log = <<>>
    /\ state = St("Idle")
    /\ config = None
    /\ delegate = FALSE
    /\ dropped = FALSE
    /\ capture_start = None
    /\ paused_duration = 0
    /\ last_pause_time = None
    /\ diag = [mic_callback_count |-> 0, system_callback_count |-> 0,
               mic_samples_total |-> 0, system_samples_total |-> 0,
               bytes_written |-> 0, mix_cycles |-> 0]
    /\ mic_buffer = RingNew(1)
    /\ system_buffer = RingNew(1)
    /\ writer = None
    /\ mic_running = FALSE
    /\ system_running = FALSE
    /\ processing_running = FALSE
    /\ timer_running = FALSE
    /\ procPc = "none"
    /\ procAvailable = 0
    /\ procFrames = 0
    /\ timerPc = "none"
    /\ ctl = "idle"
    /\ arg = None
    /\ duration = 0
    /\ ret = NoRet
    /\ clock = 0
    /\ log = <<>>
    /\ calls = 0
    /\ pausedTicks = 0
    /\ stopInvokedAt = 0

\* the caller may invoke a control method
CanCall == ctl = "idle" /\ ~dropped

\* set_state: write the state under the session lock, then notify the delegate
Event(ev, tag, d) == [ev |-> ev, tag |-> tag, duration_secs |-> d]

\* a delegate method is invoked if a delegate is installed
Notified(lg, e) == IF delegate THEN Append(lg, e) ELSE lg

SetState(s) ==
    /\ state' = s
    /\ log' = Notified(log, Event("state_changed", s.tag, s.duration_secs))

\* a call that returns an error without having touched anything
Rejected(op, err) ==
    /\ calls < MaxCalls
    /\ calls' = calls + 1
    /\ ret' = Ret(op, err)
    /\ UNCHANGED <<sessVars, config, delegate, dropped, ringVars, writer, provVars,
                   procVars, timerVars, ctl, arg, duration, clock, log, pausedTicks,
                   stopInvokedAt>>

\* ------------------------------------------------------------------ set_delegate
SetDelegate ==
    /\ CanCall
    /\ ~delegate
    /\ delegate' = TRUE
    /\ ret' = NoRet
    /\ UNCHANGED <<sessVars, config, dropped, ringVars, writer, provVars, procVars,
                   timerVars, ctlVars, clock, log, histVars>>
    /\ UNCHANGED <<fileVars, unitVars>>

\* ------------------------------------------------------------------ configure
ConfigureRejected ==
    /\ CanCall /\ delegate
    /\ state.tag # "Idle"
    /\ Rejected("configure", "ConfigurationFailed")
    /\ UNCHANGED <<fileVars, unitVars>>

\* a configure that enters Configuring before it validates
ConfigureInvalid_AfterConfiguring ==
    /\ CanCall /\ delegate
    /\ state.tag = "Idle"
    /\ \E c \in ConfigInputs : ~Validate(c)
    /\ SetState(St("Configuring"))
    /\ ret' = Ret("configure", "ConfigurationFailed")
    /\ UNCHANGED <<capture_start, paused_duration, last_pause_time, diag, config,
                   delegate, dropped, ringVars, writer, provVars, procVars, timerVars,
                   ctl, arg, duration, clock, histVars>>
    /\ UNCHANGED <<fileVars, unitVars>>

ConfigureInvalid ==
    /\ CanCall /\ delegate
    /\ state.tag = "Idle"
    /\ \E c \in ConfigInputs : ~Validate(c)
    /\ Rejected("configure", "ConfigurationFailed")
    /\ UNCHANGED <<fileVars, unitVars>>

\* configure(c) for a valid c drawn from `inputs`, up to set_state(Configuring)
ConfigureBeginFrom(inputs) ==
    /\ CanCall /\ delegate
    /\ state.tag = "Idle"
    /\ calls < MaxCalls
    /\ calls' = calls + 1
    /\ \E c \in inputs :
          /\ Validate(c)
          /\ arg' = Some(c)
    /\ SetState(St("Configuring"))
    /\ ctl' = "configure_apply"
    /\ ret' = NoRet
    /\ UNCHANGED <<capture_start, paused_duration, last_pause_time, diag, config,
                   delegate, dropped, ringVars, writer, provVars, procVars, timerVars,
                   duration, clock, pausedTicks, stopInvokedAt>>
    /\ UNCHANGED <<fileVars, unitVars>>

ConfigureBegin == ConfigureBeginFrom(ConfigInputs)

ConfigureBeginEncrypted == ConfigureBeginFrom(EncryptedConfigInputs)

ConfigureApply ==
    /\ ctl = "configure_apply"
    /\ mic_buffer' = RingNew(BufferCapacity(Get(arg)))
    /\ system_buffer' = RingNew(BufferCapacity(Get(arg)) * 2)
    /\ config' = arg
    /\ arg' = None
    /\ SetState(St("Ready"))
    /\ ctl' = "idle"
    /\ ret' = Ret("configure", "Ok")
    /\ UNCHANGED <<capture_start, paused_duration, last_pause_time, diag, delegate,
                   dropped, writer, provVars, procVars, timerVars, duration, clock,
                   histVars>>
    /\ UNCHANGED <<fileVars, unitVars>>

\* ------------------------------------------------------------------ EncryptedFileWriter
\* new + open: the file holds the 44-byte placeholder header
WriterOpened(enc) ==
    [encrypted |-> enc, is_open |-> TRUE, total_bytes_written |-> WAV_HEADER_SIZE,
     payload |-> <<>>]

\* what the encryptor returns for `data`: nonce (12 bytes), ciphertext, tag (16 bytes)
Seal(data) == [i \in 1..12 |-> 170] \o data \o [i \in 1..16 |-> 187]

\* what write(data) may return: "not_open" from a writer that is not open;
\* otherwise the encryptor may fail, and write_raw fails when the volume does
WriteOutcomes(w) ==
    IF ~w.is_open THEN {"not_open"}
    ELSE (IF w.encrypted THEN {"encrypt_error"} ELSE {})
         \cup (IF disk_ok THEN {"ok"} ELSE {"io_error"})

\* the CaptureError of an outcome
WriteError(outcome) ==
    IF outcome = "encrypt_error" THEN "EncryptionFailed" ELSE "StorageError"

\* write(data) returning `outcome`: Ok appends the bytes (plaintext) or the
\* 4-byte little-endian length and the sealed bytes (encrypted)
WriterWrite(w, data, outcome) ==
    IF outcome # "ok" THEN w
    ELSE LET out == IF w.encrypted
                    THEN ToLeBytes(AsU32(Wide(Len(Seal(data))))) \o Seal(data)
                    ELSE data
         IN [w EXCEPT !.payload = w.payload \o out,
                      !.total_bytes_written = w.total_bytes_written + Len(out)]

\* the file close() leaves on disk: header fields patched, payload as written
Finalized(w) ==
    [size |-> w.total_bytes_written,
     data_size |-> FromLeBytes(ToLeBytes(AsU32(Wide(w.total_bytes_written - WAV_HEADER_SIZE)))),
     payload |-> w.payload]

\* an extension that does not depend on the encryptor
FileExt_AlwaysWav(c) == <<"wav">>

\* "enc.wav" when an encryptor is configured, else "wav"
FileExt(c) ==
    IF c.encryptor THEN <<"enc", "wav">> ELSE <<"wav">>

\* format!("{}.{}", file_name, file_ext) as its dot-separated parts
\* (the stem recording_<uuid> holds no dot)
FileName(c) == <<"recording_uuid">> \o FileExt(c)

\* ------------------------------------------------------------------ start_capture
StartRejected ==
    /\ CanCall
    /\ config = None \/ state.tag # "Ready"
    /\ Rejected("start_capture", "ConfigurationFailed")
    /\ UNCHANGED <<fileVars, unitVars>>

\* start_capture that marks the session Capturing before the providers start
StartOpen_MarksCapturing ==
    /\ CanCall
    /\ config # None /\ state.tag = "Ready"
    /\ calls < MaxCalls
    /\ calls' = calls + 1
    /\ file_path' = Some(FileName(Get(config)))
    /\ recording' = None
    /\ writer' = Some(WriterOpened(Get(config).encryptor))
    /\ ctl' = "start_mic"
    /\ ret' = NoRet
    /\ SetState(StDur("Capturing", 0))
    /\ UNCHANGED <<capture_start, paused_duration, last_pause_time, diag, config,
                   delegate, dropped, ringVars, provVars, procVars, timerVars, arg,
                   duration, clock, pausedTicks, stopInvokedAt>>
    /\ UNCHANGED <<metadata_file, disk_ok, error_log, unitVars>>

\* a start_capture that goes on to the providers without creating the writer
StartOpen_NoWriter ==
    /\ CanCall
    /\ config # None /\ state.tag = "Ready"
    /\ calls < MaxCalls
    /\ calls' = calls + 1
    /\ file_path' = Some(FileName(Get(config)))
    /\ recording' = None
    /\ writer' = writer
    /\ ctl' = "start_mic"
    /\ ret' = NoRet
    /\ UNCHANGED <<sessVars, config, delegate, dropped, ringVars, provVars, procVars,
                   timerVars, arg, duration, clock, log, pausedTicks, stopInvokedAt>>
    /\ UNCHANGED <<metadata_file, disk_ok, error_log, unitVars>>

\* state check passed; choose the file name, create and open the writer
\* (File::create / header write may fail, and do when the volume has failed)
StartOpen ==
    /\ CanCall
    /\ config # None /\ state.tag = "Ready"
    /\ calls < MaxCalls
    /\ calls' = calls + 1
    /\ file_path' = Some(FileName(Get(config)))
    /\ recording' = None
    /\ \E ok \in (IF disk_ok THEN BOOLEAN ELSE {FALSE}) :
          IF ok
          THEN /\ writer' = Some(WriterOpened(Get(config).encryptor))
               /\ ctl' = "start_mic"
               /\ ret' = NoRet
          ELSE /\ writer' = writer
               /\ ctl' = "idle"
               /\ ret' = Ret("start_capture", "StorageError")
    /\ UNCHANGED <<sessVars, config, delegate, dropped, ringVars, provVars, procVars,
                   timerVars, arg, duration, clock, log, pausedTicks, stopInvokedAt>>
    /\ UNCHANGED <<metadata_file, disk_ok, error_log, unitVars>>

\* CaptureProvider::start of a WASAPI provider whose thread is alive iff `running`:
\* Err when already running or when the thread cannot be spawned
ProviderStart(running, ok) ==
    IF running THEN [ok |-> FALSE, running |-> TRUE, err |-> "ConfigurationFailed"]
    ELSE IF ok THEN [ok |-> TRUE, running |-> TRUE, err |-> "none"]
    ELSE [ok |-> FALSE, running |-> FALSE, err |-> "Unknown"]

\* a start that starts the microphone whether or not the configuration enables it
StartMic_IgnoresEnable ==
    /\ ctl = "start_mic"
    /\ \E avail \in BOOLEAN, ok \in BOOLEAN :
          IF avail
          THEN LET r == ProviderStart(mic_running, ok)
               IN /\ mic_running' = r.running
                  /\ IF r.ok
                     THEN ctl' = "start_system" /\ ret' = NoRet
                     ELSE ctl' = "idle" /\ ret' = Ret("start_capture", r.err)
          ELSE /\ mic_running' = mic_running
               /\ ctl' = "start_system"
               /\ ret' = NoRet
    /\ UNCHANGED <<sessVars, config, delegate, dropped, ringVars, writer, system_running,
                   procVars, timerVars, arg, duration, clock, log, histVars>>
    /\ UNCHANGED <<fileVars, unitVars>>

StartMic ==
    /\ ctl = "start_mic"
    /\ \E avail \in BOOLEAN, ok \in BOOLEAN :
          IF Get(config).enable_mic_capture /\ avail
          THEN LET r == ProviderStart(mic_running, ok)
               IN /\ mic_running' = r.running
                  /\ IF r.ok
                     THEN ctl' = "start_system" /\ ret' = NoRet
                     ELSE ctl' = "idle" /\ ret' = Ret("start_capture", r.err)
          ELSE /\ mic_running' = mic_running
               /\ ctl' = "start_system"
               /\ ret' = NoRet
    /\ UNCHANGED <<sessVars, config, delegate, dropped, ringVars, writer, system_running,
                   procVars, timerVars, arg, duration, clock, log, histVars>>
    /\ UNCHANGED <<fileVars, unitVars>>

StartSystem ==
    /\ ctl = "start_system"
    /\ \E avail \in BOOLEAN, ok \in BOOLEAN :
          IF Get(config).enable_system_capture /\ avail
          THEN LET r == ProviderStart(system_running, ok)
               IN /\ system_running' = r.running
                  /\ IF r.ok
                     THEN ctl' = "start_mark" /\ ret' = NoRet
                     ELSE ctl' = "idle" /\ ret' = Ret("start_capture", r.err)
          ELSE /\ system_running' = system_running
               /\ ctl' = "start_mark"
               /\ ret' = NoRet
    /\ UNCHANGED <<sessVars, config, delegate, dropped, ringVars, writer, mic_running,
                   procVars, timerVars, arg, duration, clock, log, histVars>>
    /\ UNCHANGED <<fileVars, unitVars>>

\* "Mark capturing": timing reset, then set_state(Capturing { 0.0 })
StartMark ==
    /\ ctl = "start_mark"
    /\ capture_start' = Some(clock)
    /\ paused_duration' = 0
    /\ SetState(StDur("Capturing", 0))
    /\ ctl' = "start_spawn"
    /\ ret' = NoRet
    /\ pausedTicks' = 0
    /\ UNCHANGED <<last_pause_time, diag, config, delegate, dropped, ringVars, writer,
                   provVars, procVars, timerVars, arg, duration, clock, calls,
                   stopInvokedAt>>
    /\ UNCHANGED <<fileVars, unitVars>>

\* start_processing_loop and start_duration_timer: set the flags, spawn the workers
StartSpawn ==
    /\ ctl = "start_spawn"
    /\ processing_running' = TRUE
    /\ procPc' = "idle"
    /\ timer_running' = TRUE
    /\ timerPc' = "idle"
    /\ ctl' = "idle"
    /\ ret' = Ret("start_capture", "Ok")
    /\ UNCHANGED <<sessVars, config, delegate, dropped, ringVars, writer, provVars,
                   procAvailable, procFrames, arg, duration, clock, log, histVars>>
    /\ UNCHANGED <<fileVars, unitVars>>

\* ------------------------------------------------------------------ pause_capture
PauseRejected ==
    /\ CanCall
    /\ state.tag # "Capturing"
    /\ Rejected("pause_capture", "ConfigurationFailed")
    /\ UNCHANGED <<fileVars, unitVars>>

\* first lock: match on the state, copy duration_secs
PauseBegin ==
    /\ CanCall
    /\ state.tag = "Capturing"
    /\ calls < MaxCalls
    /\ calls' = calls + 1
    /\ duration' = state.duration_secs
    /\ ctl' = "pause_set"
    /\ ret' = NoRet
    /\ UNCHANGED <<sessVars, config, delegate, dropped, ringVars, writer, provVars,
                   procVars, timerVars, arg, clock, log, pausedTicks,
                   stopInvokedAt>>
    /\ UNCHANGED <<fileVars, unitVars>>

\* second lock: last_pause_time = now; then set_state(Paused { duration })
PauseSet ==
    /\ ctl = "pause_set"
    /\ last_pause_time' = Some(clock)
    /\ SetState(StDur("Paused", duration))
    /\ ctl' = "idle"
    /\ ret' = Ret("pause_capture", "Ok")
    /\ UNCHANGED <<capture_start, paused_duration, diag, config, delegate, dropped,
                   ringVars, writer, provVars, procVars, timerVars, arg, duration, clock,
                   histVars>>
    /\ UNCHANGED <<fileVars, unitVars>>

\* ------------------------------------------------------------------ resume_capture
ResumeRejected ==
    /\ CanCall
    /\ state.tag # "Paused"
    /\ Rejected("resume_capture", "ConfigurationFailed")
    /\ UNCHANGED <<fileVars, unitVars>>

ResumeBegin ==
    /\ CanCall
    /\ state.tag = "Paused"
    /\ calls < MaxCalls
    /\ calls' = calls + 1
    /\ duration' = state.duration_secs
    /\ ctl' = "resume_set"
    /\ ret' = NoRet
    /\ UNCHANGED <<sessVars, config, delegate, dropped, ringVars, writer, provVars,
                   procVars, timerVars, arg, clock, log, pausedTicks,
                   stopInvokedAt>>
    /\ UNCHANGED <<fileVars, unitVars>>

\* paused_duration += pause_start.elapsed(); then set_state(Capturing { duration })
ResumeSet ==
    /\ ctl = "resume_set"
    /\ IF last_pause_time # None
       THEN paused_duration' = paused_duration + (clock - Get(last_pause_time))
       ELSE paused_duration' = paused_duration
    /\ last_pause_time' = None
    /\ SetState(StDur("Capturing", duration))
    /\ ctl' = "idle"
    /\ ret' = Ret("resume_capture", "Ok")
    /\ UNCHANGED <<capture_start, diag, config, delegate, dropped, ringVars, writer,
                   provVars, procVars, timerVars, arg, duration, clock, histVars>>
    /\ UNCHANGED <<fileVars, unitVars>>

\* ------------------------------------------------------------------ mix pass
\* process_buffers_inner from the mix onwards: mix, convert, diagnostics, writer.write
\* (`outcome` is what writer.write returns; an Err is logged and dropped)
MixAndWrite(mic_samples, system_samples, w, d, outcome) ==
    LET stereo == MixMicWithStereoSystem(mic_samples, system_samples)
        pcm == ConvertToInt16Pcm(stereo)
    IN [writer |-> IF w = None THEN w ELSE Some(WriterWrite(Get(w), pcm, outcome)),
        diag |-> [d EXCEPT !.mix_cycles = d.mix_cycles + 1,
                           !.bytes_written = d.bytes_written + Len(pcm)],
        errors |-> IF w = None \/ outcome = "ok" THEN <<>> ELSE <<WriteError(outcome)>>]

\* the outcomes writer.write may have in a pass over writer slot `w`
PassOutcomes(w) == IF w = None THEN {"ok"} ELSE WriteOutcomes(Get(w))

\* frames_to_process of the system-driven branch
FramesToProcess(sb, chunk_size) == Min(RingCount(sb) \div 2, chunk_size)

\* a system-driven pass that reads whatever the system ring holds at read time
PassSystem_ReadsAll(mb, sb, w, d, frames, outcome) ==
    LET sr == RingRead(sb, RingCount(sb))
        mr == RingRead(mb, frames)
        out == MixAndWrite(mr[2], sr[2], w, d, outcome)
    IN [mic |-> mr[1], sys |-> sr[1], writer |-> out.writer, diag |-> out.diag,
        errors |-> out.errors]

\* system-driven branch after the count: read 2*frames system samples and
\* frames mic samples, then mix and write
PassSystem(mb, sb, w, d, frames, outcome) ==
    LET sr == RingRead(sb, frames * 2)
        mr == RingRead(mb, frames)
        out == MixAndWrite(mr[2], sr[2], w, d, outcome)
    IN [mic |-> mr[1], sys |-> sr[1], writer |-> out.writer, diag |-> out.diag,
        errors |-> out.errors]

\* a mic-only pass that mixes and writes whatever it read, even nothing
PassMicOnly_WritesEmpty(mb, sb, w, d, chunk_size, outcome) ==
    LET mr == RingRead(mb, chunk_size)
        out == MixAndWrite(mr[2], <<>>, w, d, outcome)
    IN [mic |-> mr[1], sys |-> sb, writer |-> out.writer, diag |-> out.diag,
        errors |-> out.errors]

\* mic-only branch: read up to chunk_size mic samples, return when there are none
PassMicOnly(mb, sb, w, d, chunk_size, outcome) ==
    LET mr == RingRead(mb, chunk_size)
        out == MixAndWrite(mr[2], <<>>, w, d, outcome)
    IN IF Len(mr[2]) = 0
       THEN [mic |-> mr[1], sys |-> sb, writer |-> w, diag |-> d, errors |-> <<>>]
       ELSE [mic |-> mr[1], sys |-> sb, writer |-> out.writer, diag |-> out.diag,
             errors |-> out.errors]

\* process_buffers_inner as one uninterrupted pass (the final flush)
ProcessBuffersInner(mb, sb, w, d, enable_system, chunk_size, outcome) ==
    IF enable_system
    THEN IF FramesToProcess(sb, chunk_size) = 0
         THEN [mic |-> mb, sys |-> sb, writer |-> w, diag |-> d, errors |-> <<>>]
         ELSE PassSystem(mb, sb, w, d, FramesToProcess(sb, chunk_size), outcome)
    ELSE PassMicOnly(mb, sb, w, d, chunk_size, outcome)

\* ------------------------------------------------------------------ mix-loop worker
\* while running.load() fails: the thread ends
ProcExit ==
    /\ procPc = "idle"
    /\ ~processing_running
    /\ procPc' = "exited"
    /\ ret' = NoRet
    /\ UNCHANGED <<sessVars, config, delegate, dropped, ringVars, writer, provVars,
                   processing_running, procAvailable, procFrames, timerVars, ctlVars, clock, log,
                   histVars>>
    /\ UNCHANGED <<fileVars, unitVars>>

\* running, slept 100 ms, locked the state: continue unless Capturing
ProcWake ==
    /\ procPc = "idle"
    /\ processing_running
    /\ procPc' = IF state.tag = "Capturing" THEN "pass" ELSE "idle"
    /\ ret' = NoRet
    /\ UNCHANGED <<sessVars, config, delegate, dropped, ringVars, writer, provVars,
                   processing_running, procAvailable, procFrames, timerVars, ctlVars, clock, log,
                   histVars>>
    /\ UNCHANGED <<fileVars, unitVars>>

\* system-driven: count the system ring; mic-only: the whole pass
ProcPass ==
    /\ procPc = "pass"
    /\ IF Get(config).enable_system_capture
       THEN LET frames == FramesToProcess(system_buffer, ChunkSize(Get(config)))
            IN /\ procAvailable' = IF frames = 0 THEN 0 ELSE RingCount(system_buffer) \div 2
               /\ procFrames' = frames
               /\ procPc' = IF frames = 0 THEN "idle" ELSE "counted"
               /\ UNCHANGED <<diag, ringVars, writer, error_log>>
       ELSE \E outcome \in PassOutcomes(writer) :
               LET r == PassMicOnly(mic_buffer, system_buffer, writer, diag,
                                    ChunkSize(Get(config)), outcome)
               IN /\ mic_buffer' = r.mic
                  /\ system_buffer' = r.sys
                  /\ writer' = r.writer
                  /\ diag' = r.diag
                  /\ error_log' = error_log \o r.errors
                  /\ procPc' = "idle"
                  /\ UNCHANGED <<procAvailable, procFrames>>
    /\ ret' = NoRet
    /\ UNCHANGED <<state, capture_start, paused_duration, last_pause_time, config,
                   delegate, dropped, provVars, processing_running, timerVars, ctlVars,
                   clock, log, histVars>>
    /\ UNCHANGED <<metadata_file, file_path, recording, disk_ok, unitVars>>

\* a mix loop that ends when a write fails
ProcMix_StopsOnError ==
    /\ procPc = "counted"
    /\ \E outcome \in PassOutcomes(writer) :
          LET r == PassSystem(mic_buffer, system_buffer, writer, diag, procFrames,
                              outcome)
          IN /\ mic_buffer' = r.mic
             /\ system_buffer' = r.sys
             /\ writer' = r.writer
             /\ diag' = r.diag
             /\ error_log' = error_log \o r.errors
             /\ procPc' = IF r.errors = <<>> THEN "idle" ELSE "exited"
    /\ procAvailable' = 0
    /\ procFrames' = 0
    /\ ret' = NoRet
    /\ UNCHANGED <<state, capture_start, paused_duration, last_pause_time, config,
                   delegate, dropped, provVars, processing_running,
                   timerVars, ctlVars, clock, log, histVars>>
    /\ UNCHANGED <<metadata_file, file_path, recording, disk_ok, unitVars>>

\* system-driven, after the count: the reads, the mix and the write
ProcMix ==
    /\ procPc = "counted"
    /\ \E outcome \in PassOutcomes(writer) :
          LET r == PassSystem(mic_buffer, system_buffer, writer, diag, procFrames,
                              outcome)
          IN /\ mic_buffer' = r.mic
             /\ system_buffer' = r.sys
             /\ writer' = r.writer
             /\ diag' = r.diag
             /\ error_log' = error_log \o r.errors
    /\ procPc' = "idle"
    /\ procAvailable' = 0
    /\ procFrames' = 0
    /\ ret' = NoRet
    /\ UNCHANGED <<state, capture_start, paused_duration, last_pause_time, config,
                   delegate, dropped, provVars, processing_running,
                   timerVars, ctlVars, clock, log, histVars>>
    /\ UNCHANGED <<metadata_file, file_path, recording, disk_ok, unitVars>>

\* ------------------------------------------------------------------ timer worker
\* timer updates so far (each ends in one on_levels_updated)
LevelsCount ==
    Cardinality({i \in DOMAIN log : log[i].ev = "levels_updated"})
    + (IF timerPc = "emit" THEN 1 ELSE 0)

\* environment events so far: clock ticks, provider callbacks, timer updates
Events == clock + diag.mic_callback_count + diag.system_callback_count + LevelsCount
EventBudget == Events < MaxEvents

TimerExit ==
    /\ timerPc = "idle"
    /\ ~timer_running
    /\ timerPc' = "exited"
    /\ ret' = NoRet
    /\ UNCHANGED <<sessVars, config, delegate, dropped, ringVars, writer, provVars,
                   procVars, timer_running, ctlVars, clock, log, histVars>>
    /\ UNCHANGED <<fileVars, unitVars>>

\* a timer that overwrites the state without matching on Capturing
TimerWake_NoStateCheck ==
    /\ timerPc = "idle"
    /\ timer_running
    /\ EventBudget
    /\ state' = StDur("Capturing", ElapsedDuration(clock))
    /\ timerPc' = "emit"
    /\ ret' = NoRet
    /\ UNCHANGED <<capture_start, paused_duration, last_pause_time, diag, config,
                   delegate, dropped, ringVars, writer, provVars, procVars,
                   timer_running, ctlVars, clock, log, histVars>>
    /\ UNCHANGED <<fileVars, unitVars>>

\* a timer that also refreshes the duration of a paused session
TimerWake_RefreshesPaused ==
    /\ timerPc = "idle"
    /\ timer_running
    /\ IF state.tag \in {"Capturing", "Paused"}
       THEN /\ EventBudget
            /\ state' = StDur("Capturing", ElapsedDuration(clock))
            /\ timerPc' = "emit"
       ELSE /\ state' = state
            /\ timerPc' = "idle"
    /\ ret' = NoRet
    /\ UNCHANGED <<capture_start, paused_duration, last_pause_time, diag, config,
                   delegate, dropped, ringVars, writer, provVars, procVars,
                   timer_running, ctlVars, clock, log, histVars>>
    /\ UNCHANGED <<fileVars, unitVars>>

\* running, slept 250 ms, under the session lock: refresh duration_secs if Capturing
TimerWake ==
    /\ timerPc = "idle"
    /\ timer_running
    /\ IF state.tag = "Capturing"
       THEN /\ EventBudget
            /\ state' = StDur("Capturing", ElapsedDuration(clock))
            /\ timerPc' = "emit"
       ELSE /\ state' = state
            /\ timerPc' = "idle"
    /\ ret' = NoRet
    /\ UNCHANGED <<capture_start, paused_duration, last_pause_time, diag, config,
                   delegate, dropped, ringVars, writer, provVars, procVars,
                   timer_running, ctlVars, clock, log, histVars>>
    /\ UNCHANGED <<fileVars, unitVars>>

\* lock released: delegate.on_levels_updated
TimerEmit ==
    /\ timerPc = "emit"
    /\ log' = Notified(log, Event("levels_updated", "none", 0))
    /\ timerPc' = "idle"
    /\ ret' = NoRet
    /\ UNCHANGED <<sessVars, config, delegate, dropped, ringVars, writer, provVars,
                   procVars, timer_running, ctlVars, clock, histVars>>
    /\ UNCHANGED <<fileVars, unitVars>>

\* ------------------------------------------------------------------ providers

\* the n resampled mono samples of a mic buffer delivered after `total` samples
MicSamples(total, n) == [i \in 1..n |-> 1 + ((total + i - 1) % FullScale)]

\* the 2n resampled interleaved samples of a system buffer
SystemSamples(total, n) == [i \in 1..(2 * n) |-> -(1 + ((total + i - 1) % FullScale))]

\* mic callback closure: diagnostics under the session lock, then the ring write
MicCallback ==
    /\ mic_running
    /\ EventBudget
    /\ \E n \in 1..MaxBuf :
          LET resampled == MicSamples(diag.mic_samples_total, n)
          IN /\ diag' = [diag EXCEPT !.mic_callback_count = @ + 1,
                                     !.mic_samples_total = @ + Len(resampled)]
             /\ mic_buffer' = RingWrite(mic_buffer, resampled)
    /\ ret' = NoRet
    /\ UNCHANGED <<state, capture_start, paused_duration, last_pause_time, config,
                   delegate, dropped, system_buffer, writer, provVars, procVars,
                   timerVars, ctlVars, clock, log, histVars>>
    /\ UNCHANGED <<fileVars, unitVars>>

SystemCallback ==
    /\ system_running
    /\ EventBudget
    /\ \E n \in 1..MaxBuf :
          LET resampled == SystemSamples(diag.system_samples_total, n)
          IN /\ diag' = [diag EXCEPT !.system_callback_count = @ + 1,
                                     !.system_samples_total = @ + Len(resampled)]
             /\ system_buffer' = RingWrite(system_buffer, resampled)
    /\ ret' = NoRet
    /\ UNCHANGED <<state, capture_start, paused_duration, last_pause_time, config,
                   delegate, dropped, mic_buffer, writer, provVars, procVars,
                   timerVars, ctlVars, clock, log, histVars>>
    /\ UNCHANGED <<fileVars, unitVars>>

\* ------------------------------------------------------------------ stop_capture
StopSteps == {"stop_providers", "stop_flags", "stop_join_processing", "stop_join_timer",
              "stop_flush", "stop_close", "stop_result", "stop_finished", "stop_reset"}

StopRejected ==
    /\ CanCall
    /\ state.tag \notin {"Capturing", "Paused"}
    /\ Rejected("stop_capture", "ConfigurationFailed")
    /\ UNCHANGED <<fileVars, unitVars>>

\* stop_capture without its state check
StopBegin_NoStateCheck ==
    /\ CanCall
    /\ calls < MaxCalls
    /\ calls' = calls + 1
    /\ SetState(St("Stopping"))
    /\ ctl' = "stop_providers"
    /\ stopInvokedAt' = clock
    /\ ret' = NoRet
    /\ UNCHANGED <<capture_start, paused_duration, last_pause_time, diag, config,
                   delegate, dropped, ringVars, writer, provVars, procVars, timerVars,
                   arg, duration, clock, pausedTicks>>
    /\ UNCHANGED <<fileVars, unitVars>>

\* state check passed; set_state(Stopping)
StopBegin ==
    /\ CanCall
    /\ state.tag \in {"Capturing", "Paused"}
    /\ calls < MaxCalls
    /\ calls' = calls + 1
    /\ SetState(St("Stopping"))
    /\ ctl' = "stop_providers"
    /\ stopInvokedAt' = clock
    /\ ret' = NoRet
    /\ UNCHANGED <<capture_start, paused_duration, last_pause_time, diag, config,
                   delegate, dropped, ringVars, writer, provVars, procVars, timerVars,
                   arg, duration, clock, pausedTicks>>
    /\ UNCHANGED <<fileVars, unitVars>>

\* mic.stop(); system.stop(): flag cleared and capture thread joined, results ignored
StopProviders ==
    /\ ctl = "stop_providers"
    /\ mic_running' = FALSE
    /\ system_running' = FALSE
    /\ ctl' = "stop_flags"
    /\ ret' = NoRet
    /\ UNCHANGED <<sessVars, config, delegate, dropped, ringVars, writer, procVars,
                   timerVars, arg, duration, clock, log, histVars>>
    /\ UNCHANGED <<fileVars, unitVars>>

\* a stop_capture that signals the timer worker only
StopFlags_KeepsProcessingFlag ==
    /\ ctl = "stop_flags"
    /\ processing_running' = processing_running
    /\ timer_running' = FALSE
    /\ ctl' = "stop_join_processing"
    /\ ret' = NoRet
    /\ UNCHANGED <<sessVars, config, delegate, dropped, ringVars, writer, provVars,
                   procPc, procAvailable, procFrames, timerPc, arg, duration, clock, log, histVars>>
    /\ UNCHANGED <<fileVars, unitVars>>

\* processing_running.store(false); timer_running.store(false)
StopFlags ==
    /\ ctl = "stop_flags"
    /\ processing_running' = FALSE
    /\ timer_running' = FALSE
    /\ ctl' = "stop_join_processing"
    /\ ret' = NoRet
    /\ UNCHANGED <<sessVars, config, delegate, dropped, ringVars, writer, provVars,
                   procPc, procAvailable, procFrames, timerPc, arg, duration, clock, log, histVars>>
    /\ UNCHANGED <<fileVars, unitVars>>

\* a stop_capture that signals the mix-loop worker but does not wait for it
StopJoinProcessing_NoWait ==
    /\ ctl = "stop_join_processing"
    /\ procPc' = procPc
    /\ ctl' = "stop_join_timer"
    /\ ret' = NoRet
    /\ UNCHANGED <<sessVars, config, delegate, dropped, ringVars, writer, provVars,
                   processing_running, procAvailable, procFrames, timerVars, arg, duration, clock,
                   log, histVars>>
    /\ UNCHANGED <<fileVars, unitVars>>

\* processing_handle.take() and join: returns once the worker thread has ended
StopJoinProcessing ==
    /\ ctl = "stop_join_processing"
    /\ procPc \in {"none", "exited"}
    /\ procPc' = "none"
    /\ ctl' = "stop_join_timer"
    /\ ret' = NoRet
    /\ UNCHANGED <<sessVars, config, delegate, dropped, ringVars, writer, provVars,
                   processing_running, procAvailable, procFrames, timerVars, arg, duration, clock,
                   log, histVars>>
    /\ UNCHANGED <<fileVars, unitVars>>

StopJoinTimer ==
    /\ ctl = "stop_join_timer"
    /\ timerPc \in {"none", "exited"}
    /\ timerPc' = "none"
    /\ ctl' = "stop_flush"
    /\ ret' = NoRet
    /\ UNCHANGED <<sessVars, config, delegate, dropped, ringVars, writer, provVars,
                   procVars, timer_running, arg, duration, clock, log, histVars>>
    /\ UNCHANGED <<fileVars, unitVars>>

\* process_buffers_once: one pass on the control thread
StopFlush ==
    /\ ctl = "stop_flush"
    /\ \E outcome \in PassOutcomes(writer) :
          LET r == IF config = None
                   THEN [mic |-> mic_buffer, sys |-> system_buffer, writer |-> writer,
                         diag |-> diag, errors |-> <<>>]
                   ELSE ProcessBuffersInner(mic_buffer, system_buffer, writer, diag,
                                            Get(config).enable_system_capture,
                                            ChunkSize(Get(config)), outcome)
          IN /\ mic_buffer' = r.mic
             /\ system_buffer' = r.sys
             /\ writer' = r.writer
             /\ diag' = r.diag
             /\ error_log' = error_log \o r.errors
    /\ ctl' = "stop_close"
    /\ ret' = NoRet
    /\ UNCHANGED <<state, capture_start, paused_duration, last_pause_time, config,
                   delegate, dropped, provVars, procVars, timerVars, arg, duration,
                   clock, log, histVars>>
    /\ UNCHANGED <<metadata_file, file_path, recording, disk_ok, unitVars>>

\* outcomes of EncryptedFileWriter::close on an open writer: the header patch
\* fails (still open), the checksum read-back fails (already closed), or Ok
CloseOutcomes == {"ok", "io_error", "checksum_error"}

\* "Finalize file": close the writer; every failure leaves through `?` / return Err
StopClose ==
    /\ ctl = "stop_close"
    /\ IF writer = None \/ ~Get(writer).is_open
       THEN /\ writer' = writer
            /\ recording' = recording
            /\ ctl' = "idle"
            /\ ret' = Ret("stop_capture", "StorageError")
       ELSE \E outcome \in (IF disk_ok THEN CloseOutcomes ELSE {"io_error"}) :
               /\ writer' = CASE outcome = "ok" -> None
                              [] outcome = "io_error" -> writer
                              [] OTHER -> Some([Get(writer) EXCEPT !.is_open = FALSE])
               /\ recording' = IF outcome = "io_error" THEN recording
                               ELSE Some(Finalized(Get(writer)))
               /\ ctl' = IF outcome = "ok" THEN "stop_result" ELSE "idle"
               /\ ret' = IF outcome = "ok" THEN NoRet
                         ELSE Ret("stop_capture", "StorageError")
    /\ UNCHANGED <<sessVars, config, delegate, dropped, ringVars, provVars, procVars,
                   timerVars, arg, duration, clock, log, histVars>>
    /\ UNCHANGED <<metadata_file, file_path, disk_ok, error_log, unitVars>>

\* duration = elapsed_duration(); build the result; set_state(Completed(result))
StopResult ==
    /\ ctl = "stop_result"
    /\ duration' = ElapsedDuration(clock)
    /\ SetState(StDur("Completed", ElapsedDuration(clock)))
    /\ ctl' = "stop_finished"
    /\ ret' = NoRet
    /\ UNCHANGED <<capture_start, paused_duration, last_pause_time, diag, config,
                   delegate, dropped, ringVars, writer, provVars, procVars, timerVars,
                   arg, clock, histVars>>
    /\ UNCHANGED <<fileVars, unitVars>>

\* stop_capture that forgets delegate.on_capture_finished
StopFinished_Skipped ==
    /\ ctl = "stop_finished"
    /\ ctl' = "stop_reset"
    /\ ret' = NoRet
    /\ UNCHANGED <<sessVars, config, delegate, dropped, ringVars, writer, provVars,
                   procVars, timerVars, arg, duration, clock, log, histVars>>
    /\ UNCHANGED <<fileVars, unitVars>>

\* delegate.on_capture_finished(&result)
StopFinished ==
    /\ ctl = "stop_finished"
    /\ log' = Notified(log, Event("capture_finished", "Completed", duration))
    /\ ctl' = "stop_reset"
    /\ ret' = NoRet
    /\ UNCHANGED <<sessVars, config, delegate, dropped, ringVars, writer, provVars,
                   procVars, timerVars, arg, duration, clock, histVars>>
    /\ UNCHANGED <<fileVars, unitVars>>

\* "Reset for next session": the state field is assigned directly; Ok(result)
StopReset ==
    /\ ctl = "stop_reset"
    /\ state' = St("Idle")
    /\ ctl' = "idle"
    /\ ret' = [Ret("stop_capture", "Ok") EXCEPT
                  !.duration_secs = duration,
                  !.file_name = Get(file_path),
                  !.is_encrypted = Get(config).encryptor,
                  !.encryption_algorithm =
                      IF Get(config).encryptor THEN Some("algorithm") ELSE None]
    /\ UNCHANGED <<capture_start, paused_duration, last_pause_time, diag, config,
                   delegate, dropped, ringVars, writer, provVars, procVars, timerVars,
                   arg, duration, clock, log, histVars>>
    /\ UNCHANGED <<fileVars, unitVars>>

\* ------------------------------------------------------------------ drop
\* CompositeSession and the providers implement no Drop: the fields are released,
\* the JoinHandles are dropped (threads detach), the flags stay as they are
Drop ==
    /\ CanCall
    /\ state.tag \in {"Capturing", "Paused"}
    /\ dropped' = TRUE
    /\ ret' = NoRet
    /\ UNCHANGED <<sessVars, config, delegate, ringVars, writer, provVars, procVars,
                   timerVars, ctlVars, clock, log, histVars>>
    /\ UNCHANGED <<fileVars, unitVars>>

\* ------------------------------------------------------------------ storage
\* the output volume fails while a recording is open (disk full, device removed):
\* from now on every write to it fails
DiskFails ==
    /\ disk_ok
    /\ writer # None /\ Get(writer).is_open
    /\ disk_ok' = FALSE
    /\ ret' = NoRet
    /\ UNCHANGED <<sessVars, config, delegate, dropped, ringVars, writer, provVars,
                   procVars, timerVars, ctlVars, clock, log, histVars>>
    /\ UNCHANGED <<metadata_file, file_path, recording, error_log, unitVars>>

\* ------------------------------------------------------------------ clock
Tick ==
    /\ EventBudget
    /\ ~dropped
    /\ \/ ctl = "idle" /\ state.tag \in {"Capturing", "Paused"}
       \/ ctl = "stop_join_processing"
    /\ clock' = clock + 1
    /\ pausedTicks' = IF state.tag = "Paused" THEN pausedTicks + 1 ELSE pausedTicks
    /\ ret' = NoRet
    /\ UNCHANGED <<sessVars, config, delegate, dropped, ringVars, writer, provVars,
                   procVars, timerVars, ctlVars, log, calls, stopInvokedAt>>
    /\ UNCHANGED <<fileVars, unitVars>>

\* ------------------------------------------------------------------ RingBuffer on its own
MaxCap == 3           \* ring capacities 1..MaxCap
MaxWrite == 4         \* longest write and largest read count
MaxWritten == 6       \* samples written per behaviour

\* RingBuffer::reset
RingReset(r) == [r EXCEPT !.write_index = 0, !.read_index = 0, !.available = 0]

\* the logical contents, oldest first
Contents(r) == [i \in 1..r.available |-> r.buffer[(r.read_index + (i - 1)) % r.capacity]]

RingUnitIdle ==
    /\ rb = RingNew(1)
    /\ rbWritten = 0
    /\ rbBase = 0
    /\ rbRead = <<>>
    /\ rbOverflow = FALSE
    /\ rbOp = [op |-> "new", n |-> 0, out |-> <<>>]

\* write(samples) with |samples| = n; the samples are numbered in writing order
RbWrite ==
    /\ \E n \in 0..MaxWrite :
          /\ rbWritten + n <= MaxWritten
          /\ rb' = RingWrite(rb, [i \in 1..n |-> rbWritten + i])
          /\ rbWritten' = rbWritten + n
          /\ rbOverflow' = (rbOverflow \/ rb.available + n > rb.capacity)
          /\ rbOp' = [op |-> "write", n |-> n, out |-> <<>>]
    /\ UNCHANGED <<rbBase, rbRead, sessionVars, writerUnitVars,
                   mixerUnitVars, lockUnitVars, flowUnitVars>>

\* read(count)
RbRead ==
    /\ \E n \in 0..MaxWrite :
          LET r == RingRead(rb, n)
          IN /\ rb' = r[1]
             /\ rbRead' = rbRead \o r[2]
             /\ rbOp' = [op |-> "read", n |-> n, out |-> r[2]]
    /\ UNCHANGED <<rbWritten, rbBase, rbOverflow, sessionVars, writerUnitVars,
                   mixerUnitVars, lockUnitVars, flowUnitVars>>

\* reset()
RbReset ==
    /\ rb' = RingReset(rb)
    /\ rbBase' = rbWritten
    /\ rbRead' = <<>>
    /\ rbOverflow' = FALSE
    /\ rbOp' = [op |-> "reset", n |-> 0, out |-> <<>>]
    /\ UNCHANGED <<rbWritten, sessionVars, writerUnitVars,
                   mixerUnitVars, lockUnitVars, flowUnitVars>>

\* ------------------------------------------------------------------ EncryptedFileWriter on its own
MaxWriterOps == 4     \* writer calls per behaviour

\* a buffer of `len` bytes, all equal to `byte` (len is a Wide)
Run(byte, len) == [byte |-> byte, len |-> len]
\* file.write_all of one buffer at the end of the file
AppendRun(payload, run) == IF run.len = Wide(0) THEN payload ELSE Append(payload, run)
\* file.write_all of four single bytes
AppendBytes(payload, bytes) ==
    payload \o [i \in 1..Len(bytes) |-> Run(bytes[i], Wide(1))]

RECURSIVE PayloadSize(_)
PayloadSize(payload) ==
    IF payload = <<>> THEN Wide(0)
    ELSE WideAdd(payload[1].len, PayloadSize(Tail(payload)))

\* buffers handed to write: short ones and a bulk of 2^31 bytes
BulkLen == [hi |-> 2^15, lo |-> 0]
DataInputs == {Run(0, Wide(0)), Run(1, Wide(2)), Run(2, Wide(3)), Run(3, BulkLen)}

\* what an encryptor may return for `data`: an error, or sealed bytes (nonce 12 +
\* ciphertext + tag 16 for AES-GCM; an arbitrary encryptor may also return nothing)
Sealed(data) == {Run(data.byte + 100, WideAdd(data.len, Wide(28))), Run(0, Wide(0))}

\* EncryptedFileWriter::new
WriterNew(enc) ==
    [encrypted |-> enc, has_file |-> FALSE, total_bytes_written |-> Wide(0),
     is_open |-> FALSE]

\* File::create followed by the 44-byte header with data_size 0
FileCreated(header_len) ==
    [header_len |-> header_len,
     riff_size |-> ToLeBytes(AsU32(Wide(36))),
     data_size |-> ToLeBytes(AsU32(Wide(0))),
     payload |-> <<>>]

WriterUnitIdle ==
    /\ fw = WriterNew(FALSE)
    /\ fwFile = None
    /\ fwHist = <<>>
    /\ fwIoFailed = FALSE
    /\ fwFailedAt = None
    /\ fwOp = [op |-> "new", val |-> "Ok", k |-> 0]

FwCalled(op, val) == fwOp' = [op |-> op, val |-> val, k |-> fwOp.k + 1]
FwBudget == fwOp.k < MaxWriterOps

\* open(): Ok at once when already open; create_dir_all / File::create may fail;
\* then the header goes through write_raw, which may fail part-way
FwOpen ==
    /\ FwBudget
    /\ IF fw.is_open
       THEN /\ FwCalled("open", "Ok")
            /\ UNCHANGED <<fw, fwFile, fwHist, fwIoFailed>>
       ELSE \E outcome \in {"ok", "create_error", "header_error"} :
               CASE outcome = "create_error" ->
                       /\ FwCalled("open", "StorageError")
                       /\ UNCHANGED <<fw, fwFile, fwHist, fwIoFailed>>
                 [] outcome = "header_error" ->
                       /\ fw' = [fw EXCEPT !.has_file = TRUE]
                       /\ \E part \in {0, 20} : fwFile' = Some(FileCreated(part))
                       /\ fwHist' = <<>>
                       /\ fwIoFailed' = TRUE
                       /\ FwCalled("open", "StorageError")
                 [] outcome = "ok" ->
                       /\ fw' = [fw EXCEPT !.has_file = TRUE, !.is_open = TRUE,
                                           !.total_bytes_written =
                                               WideAdd(@, Wide(WAV_HEADER_SIZE))]
                       /\ fwFile' = Some(FileCreated(WAV_HEADER_SIZE))
                       /\ fwHist' = <<>>
                       /\ fwIoFailed' = FALSE
                       /\ FwCalled("open", "Ok")
    /\ fwFailedAt' = IF ~fw.is_open /\ fwOp'.val = "Ok" THEN None ELSE fwFailedAt
    /\ UNCHANGED <<sessionVars, ringUnitVars, mixerUnitVars, lockUnitVars, flowUnitVars>>

\* the part of a buffer a failing write_all may have left in the file
Partial(run) == {Run(run.byte, Wide(0))} \cup
                (IF run.len = Wide(0) THEN {} ELSE {Run(run.byte, Wide(1))})

\* a chunk whose length prefix is written big-endian
Record_BigEndian(sealed) ==
    LET b == ToLeBytes(AsU32(sealed.len))
    IN AppendRun(AppendBytes(<<>>, <<b[4], b[3], b[2], b[1]>>), sealed)

\* one encrypted chunk on disk: 4-byte little-endian length, then the sealed bytes
Record(sealed) == AppendRun(AppendBytes(<<>>, ToLeBytes(AsU32(sealed.len))), sealed)

\* a write on a closed writer that reports success
FwWriteClosed_ReportsOk ==
    /\ FwBudget
    /\ ~fw.is_open
    /\ \E data \in DataInputs : FwCalled("write", "Ok")
    /\ UNCHANGED fwFailedAt
    /\ UNCHANGED <<fw, fwFile, fwHist, fwIoFailed, sessionVars, ringUnitVars,
                   mixerUnitVars, lockUnitVars, flowUnitVars>>

\* write(data) while not open
FwWriteClosed ==
    /\ FwBudget
    /\ ~fw.is_open
    /\ \E data \in DataInputs : FwCalled("write", "StorageError")
    /\ UNCHANGED fwFailedAt
    /\ UNCHANGED <<fw, fwFile, fwHist, fwIoFailed, sessionVars, ringUnitVars,
                   mixerUnitVars, lockUnitVars, flowUnitVars>>

\* write(data), plaintext: write_raw(data)
FwWritePlain ==
    /\ FwBudget
    /\ fw.is_open /\ ~fw.encrypted
    /\ \E data \in DataInputs, ok \in BOOLEAN :
          IF ok
          THEN /\ fwFile' = Some([Get(fwFile) EXCEPT !.payload = AppendRun(@, data)])
               /\ fw' = [fw EXCEPT !.total_bytes_written = WideAdd(@, data.len)]
               /\ fwHist' = Append(fwHist, [data |-> data, out |-> data])
               /\ fwIoFailed' = fwIoFailed
               /\ FwCalled("write", "Ok")
          ELSE /\ \E part \in Partial(data) :
                     fwFile' = Some([Get(fwFile) EXCEPT !.payload = AppendRun(@, part)])
               /\ fwIoFailed' = TRUE
               /\ FwCalled("write", "StorageError")
               /\ UNCHANGED <<fw, fwHist>>
    /\ UNCHANGED fwFailedAt
    /\ UNCHANGED <<sessionVars, ringUnitVars, mixerUnitVars, lockUnitVars, flowUnitVars>>

\* a write that puts a length prefix in the file before it calls the encryptor
FwWriteEncrypted_PrefixFirst ==
    /\ FwBudget
    /\ fw.is_open /\ fw.encrypted
    /\ \E data \in DataInputs, outcome \in {"ok", "encrypt_error", "prefix_error",
                                            "sealed_error"} :
          \E sealed \in Sealed(data) :
             LET prefix == ToLeBytes(AsU32(sealed.len))
                 f == Get(fwFile)
             IN CASE outcome = "encrypt_error" ->
                       /\ fwFile' = Some([f EXCEPT !.payload =
                                               AppendBytes(@, ToLeBytes(Wide(0)))])
                       /\ fw' = [fw EXCEPT !.total_bytes_written = WideAdd(@, Wide(4))]
                       /\ FwCalled("write", "EncryptionFailed")
                       /\ UNCHANGED <<fwHist, fwIoFailed>>
                  [] outcome = "prefix_error" ->
                       /\ \E n \in {0, 2} :
                             fwFile' = Some([f EXCEPT !.payload =
                                               AppendBytes(@, SubSeq(prefix, 1, n))])
                       /\ fwIoFailed' = TRUE
                       /\ FwCalled("write", "StorageError")
                       /\ UNCHANGED <<fw, fwHist>>
                  [] outcome = "sealed_error" ->
                       /\ \E part \in Partial(sealed) :
                             fwFile' = Some([f EXCEPT !.payload =
                                               AppendRun(AppendBytes(@, prefix), part)])
                       /\ fw' = [fw EXCEPT !.total_bytes_written = WideAdd(@, Wide(4))]
                       /\ fwIoFailed' = TRUE
                       /\ FwCalled("write", "StorageError")
                       /\ UNCHANGED fwHist
                  [] outcome = "ok" ->
                       /\ fwFile' = Some([f EXCEPT !.payload = @ \o Record(sealed)])
                       /\ fw' = [fw EXCEPT !.total_bytes_written =
                                    WideAdd(WideAdd(@, Wide(4)), sealed.len)]
                       /\ fwHist' = Append(fwHist, [data |-> data, out |-> sealed])
                       /\ fwIoFailed' = fwIoFailed
                       /\ FwCalled("write", "Ok")
    /\ fwFailedAt' = IF fwOp'.val = "EncryptionFailed" THEN Some(Len(fwHist)) ELSE fwFailedAt
    /\ UNCHANGED <<sessionVars, ringUnitVars, mixerUnitVars, lockUnitVars, flowUnitVars>>

\* write(data), encrypted: encrypt, write_raw(length prefix), write_raw(sealed)
FwWriteEncrypted ==
    /\ FwBudget
    /\ fw.is_open /\ fw.encrypted
    /\ \E data \in DataInputs, outcome \in {"ok", "encrypt_error", "prefix_error",
                                            "sealed_error"} :
          \E sealed \in Sealed(data) :
             LET prefix == ToLeBytes(AsU32(sealed.len))
                 f == Get(fwFile)
             IN CASE outcome = "encrypt_error" ->
                       /\ FwCalled("write", "EncryptionFailed")
                       /\ UNCHANGED <<fw, fwFile, fwHist, fwIoFailed>>
                  [] outcome = "prefix_error" ->
                       /\ \E n \in {0, 2} :
                             fwFile' = Some([f EXCEPT !.payload =
                                               AppendBytes(@, SubSeq(prefix, 1, n))])
                       /\ fwIoFailed' = TRUE
                       /\ FwCalled("write", "StorageError")
                       /\ UNCHANGED <<fw, fwHist>>
                  [] outcome = "sealed_error" ->
                       /\ \E part \in Partial(sealed) :
                             fwFile' = Some([f EXCEPT !.payload =
                                               AppendRun(AppendBytes(@, prefix), part)])
                       /\ fw' = [fw EXCEPT !.total_bytes_written = WideAdd(@, Wide(4))]
                       /\ fwIoFailed' = TRUE
                       /\ FwCalled("write", "StorageError")
                       /\ UNCHANGED fwHist
                  [] outcome = "ok" ->
                       /\ fwFile' = Some([f EXCEPT !.payload = @ \o Record(sealed)])
                       /\ fw' = [fw EXCEPT !.total_bytes_written =
                                    WideAdd(WideAdd(@, Wide(4)), sealed.len)]
                       /\ fwHist' = Append(fwHist, [data |-> data, out |-> sealed])
                       /\ fwIoFailed' = fwIoFailed
                       /\ FwCalled("write", "Ok")
    /\ fwFailedAt' = IF fwOp'.val = "EncryptionFailed" THEN Some(Len(fwHist)) ELSE fwFailedAt
    /\ UNCHANGED <<sessionVars, ringUnitVars, mixerUnitVars, lockUnitVars, flowUnitVars>>

\* close(): Err when not open; patch the RIFF size at offset 4 and the data size at
\* offset 40, flush, drop the file handle, then read the file back for its SHA-256
FwClose ==
    /\ FwBudget
    /\ IF ~fw.is_open
       THEN /\ FwCalled("close", "StorageError")
            /\ UNCHANGED <<fw, fwFile>>
       ELSE LET data_size == WideSub(fw.total_bytes_written, Wide(WAV_HEADER_SIZE))
                file_size == AsU32(WideSub(fw.total_bytes_written, Wide(8)))
                f == Get(fwFile)
                patched4 == [f EXCEPT !.riff_size = ToLeBytes(file_size)]
                patched40 == [patched4 EXCEPT !.data_size = ToLeBytes(AsU32(data_size))]
            IN \E outcome \in {"ok", "riff_error", "data_error", "flush_error",
                               "checksum_error"} :
                  CASE outcome = "riff_error" ->
                          /\ FwCalled("close", "StorageError")
                          /\ UNCHANGED <<fw, fwFile>>
                    [] outcome = "data_error" ->
                          /\ fwFile' = Some(patched4)
                          /\ FwCalled("close", "StorageError")
                          /\ UNCHANGED fw
                    [] outcome = "flush_error" ->
                          /\ fwFile' = Some(patched40)
                          /\ FwCalled("close", "StorageError")
                          /\ UNCHANGED fw
                    [] outcome = "checksum_error" ->
                          /\ fwFile' = Some(patched40)
                          /\ fw' = [fw EXCEPT !.has_file = FALSE, !.is_open = FALSE]
                          /\ FwCalled("close", "StorageError")
                    [] outcome = "ok" ->
                          /\ fwFile' = Some(patched40)
                          /\ fw' = [fw EXCEPT !.has_file = FALSE, !.is_open = FALSE]
                          /\ FwCalled("close", "Ok")
    /\ UNCHANGED fwFailedAt
    /\ UNCHANGED <<fwHist, fwIoFailed, sessionVars, ringUnitVars,
                   mixerUnitVars, lockUnitVars, flowUnitVars>>


\* ------------------------------------------------------------------ StereoMixer on its own
MaxMixFrames == 2     \* longest mic argument; system arguments reach 2 * MaxMixFrames + 1 samples

\* the sample values the arguments are drawn from
MixSamples == {-2, 1, 2}

SeqsUpTo(S, n) == UNION {[1..k -> S] : k \in 0..n}

MixerUnitIdle ==
    /\ mxMic = <<>>
    /\ mxSys = <<>>
    /\ mxOut = None
    /\ mxPcm = None

\* mix_mic_with_stereo_system(mxMic, mxSys)
MxMix ==
    /\ mxOut = None
    /\ mxOut' = Some(MixMicWithStereoSystem(mxMic, mxSys))
    /\ UNCHANGED <<mxMic, mxSys, mxPcm, sessionVars, ringUnitVars,
                   writerUnitVars, lockUnitVars, flowUnitVars>>

\* convert_to_int16_pcm(stereo), as a mix pass calls it on what the mix returned
MxConvert ==
    /\ mxOut # None
    /\ mxPcm = None
    /\ mxPcm' = Some(ConvertToInt16Pcm(Get(mxOut)))
    /\ UNCHANGED <<mxMic, mxSys, mxOut, sessionVars, ringUnitVars,
                   writerUnitVars, lockUnitVars, flowUnitVars>>

\* ------------------------------------------------------------------ the session's mutexes
Mutexes == {"session_state", "mic_buffer", "system_buffer", "writer"}
Threads == {"control", "mic_callback", "system_callback", "processing", "timer"}

Lock(m) == [op |-> "lock", on |-> m]
Unlock(m) == [op |-> "unlock", on |-> m]
\* a guard that lives for one statement or one block
Locked(m) == <<Lock(m), Unlock(m)>>
\* provider start / thread spawn, and provider stop / thread join
Start(t) == [op |-> "start", on |-> t]
Join(t) == [op |-> "join", on |-> t]

\* a producer callback: levels and diagnostics under the session lock, then the ring
CallbackProgram(ring) == Locked("session_state") \o Locked(ring)

\* set_state
SetStateProgram == Locked("session_state")

\* process_buffers_inner with the writer locked inside the diagnostics block
ProcessBuffersInnerPrograms_NestsWriter(enable_system) ==
    IF enable_system
      THEN {Locked("system_buffer"),
            Locked("system_buffer") \o Locked("system_buffer") \o Locked("mic_buffer")
              \o <<Lock("session_state"), Lock("writer"), Unlock("writer"),
                   Unlock("session_state")>>}
      ELSE {Locked("mic_buffer"),
            Locked("mic_buffer")
              \o <<Lock("session_state"), Lock("writer"), Unlock("writer"),
                   Unlock("session_state")>>}

\* process_buffers_inner: the pass that returns early and the pass that writes
ProcessBuffersInnerPrograms(enable_system) ==
    IF enable_system
      THEN {Locked("system_buffer"),
            Locked("system_buffer") \o Locked("system_buffer") \o Locked("mic_buffer")
              \o Locked("session_state") \o Locked("writer")}
      ELSE {Locked("mic_buffer"),
            Locked("mic_buffer") \o Locked("session_state") \o Locked("writer")}

\* one iteration of the mix loop: the is_capturing check, then a pass or `continue`
ProcessingPrograms(enable_system) ==
    {Locked("session_state")}
      \cup {Locked("session_state") \o p : p \in ProcessBuffersInnerPrograms(enable_system)}

\* one iteration of the timer loop
TimerProgram == Locked("session_state")

\* state(), current_levels(), diagnostics(), or a control call that fails its state check
GetterProgram == Locked("session_state")

ConfigureProgram == Locked("session_state") \o SetStateProgram \o SetStateProgram

StartProgram(s) ==
    Locked("session_state") \o Locked("writer")
      \o (IF s.enable_mic_capture THEN <<Start("mic_callback")>> ELSE <<>>)
      \o (IF s.enable_system_capture THEN <<Start("system_callback")>> ELSE <<>>)
      \o Locked("session_state") \o SetStateProgram
      \o <<Start("processing"), Start("timer")>>

PauseProgram == Locked("session_state") \o Locked("session_state") \o SetStateProgram

ResumeProgram == Locked("session_state") \o Locked("session_state") \o SetStateProgram

StopPrograms(s) ==
    {Locked("session_state") \o SetStateProgram
       \o <<Join("mic_callback"), Join("system_callback"), Join("processing"), Join("timer")>>
       \o flush
       \o Locked("session_state") \o Locked("writer") \o Locked("session_state")
       \o SetStateProgram \o Locked("session_state")
     : flush \in ProcessBuffersInnerPrograms(s.enable_system_capture)}

LockSessions ==
    [phase : {"Idle", "Ready", "Capturing"},
     enable_mic_capture : BOOLEAN, enable_system_capture : BOOLEAN]

LockUnitIdle ==
    /\ lkHolder = [m \in Mutexes |-> "free"]
    /\ lkAlive = [t \in Threads |-> t = "control"]
    /\ lkProg = [t \in Threads |-> <<>>]
    /\ lkPc = [t \in Threads |-> 0]
    /\ lkSession = [phase |-> "Idle", enable_mic_capture |-> FALSE,
                    enable_system_capture |-> FALSE]

\* thread t has taken the step it was at
Advance(t) ==
    IF lkPc[t] = Len(lkProg[t])
      THEN /\ lkProg' = [lkProg EXCEPT ![t] = <<>>]
           /\ lkPc' = [lkPc EXCEPT ![t] = 0]
      ELSE /\ lkPc' = [lkPc EXCEPT ![t] = lkPc[t] + 1]
           /\ UNCHANGED lkProg

Running(t) == lkProg[t] # <<>>
AtStep(t) == lkProg[t][lkPc[t]]

Begin(t, p) ==
    /\ lkProg' = [lkProg EXCEPT ![t] = p]
    /\ lkPc' = [lkPc EXCEPT ![t] = 1]

\* the caller invokes a method of the session
LkCall ==
    /\ ~Running("control")
    /\ \/ /\ Begin("control", GetterProgram)
          /\ UNCHANGED lkSession
       \/ /\ lkSession.phase = "Idle"
          /\ \E mic \in BOOLEAN, sys \in BOOLEAN :
                lkSession' = [phase |-> "Ready", enable_mic_capture |-> mic,
                              enable_system_capture |-> sys]
          /\ Begin("control", ConfigureProgram)
       \/ /\ lkSession.phase = "Ready"
          /\ lkSession' = [lkSession EXCEPT !.phase = "Capturing"]
          /\ Begin("control", StartProgram(lkSession))
       \/ /\ lkSession.phase = "Capturing"
          /\ \E p \in {PauseProgram, ResumeProgram} : Begin("control", p)
          /\ UNCHANGED lkSession
       \/ /\ lkSession.phase = "Capturing"
          /\ lkSession' = [lkSession EXCEPT !.phase = "Idle"]
          /\ \E p \in StopPrograms(lkSession) : Begin("control", p)
    /\ UNCHANGED <<lkHolder, lkAlive, sessionVars, ringUnitVars, writerUnitVars,
                   mixerUnitVars, flowUnitVars>>

\* a provider thread delivers a buffer, or a worker wakes from its sleep
LkIterate ==
    /\ \E t \in Threads \ {"control"} :
          /\ lkAlive[t]
          /\ ~Running(t)
          /\ \E p \in (CASE t = "mic_callback" -> {CallbackProgram("mic_buffer")}
                         [] t = "system_callback" -> {CallbackProgram("system_buffer")}
                         [] t = "processing" ->
                              ProcessingPrograms(lkSession.enable_system_capture)
                         [] t = "timer" -> {TimerProgram}) :
                Begin(t, p)
    /\ UNCHANGED <<lkHolder, lkAlive, lkSession, sessionVars, ringUnitVars,
                   writerUnitVars, mixerUnitVars, flowUnitVars>>

\* Mutex::lock: the thread proceeds once the mutex is free
LkLock ==
    /\ \E t \in Threads :
          /\ Running(t)
          /\ AtStep(t).op = "lock"
          /\ lkHolder[AtStep(t).on] = "free"
          /\ lkHolder' = [lkHolder EXCEPT ![AtStep(t).on] = t]
          /\ Advance(t)
    /\ UNCHANGED <<lkAlive, lkSession, sessionVars, ringUnitVars, writerUnitVars,
                   mixerUnitVars, flowUnitVars>>

\* the guard is dropped
LkUnlock ==
    /\ \E t \in Threads :
          /\ Running(t)
          /\ AtStep(t).op = "unlock"
          /\ lkHolder' = [lkHolder EXCEPT ![AtStep(t).on] = "free"]
          /\ Advance(t)
    /\ UNCHANGED <<lkAlive, lkSession, sessionVars, ringUnitVars, writerUnitVars,
                   mixerUnitVars, flowUnitVars>>

\* provider.start / thread::spawn
LkStart ==
    /\ Running("control")
    /\ AtStep("control").op = "start"
    /\ lkAlive' = [lkAlive EXCEPT ![AtStep("control").on] = TRUE]
    /\ Advance("control")
    /\ UNCHANGED <<lkHolder, lkSession, sessionVars, ringUnitVars, writerUnitVars,
                   mixerUnitVars, flowUnitVars>>

\* provider.stop / handle.join: returns once the thread has left its loop
LkJoin ==
    /\ Running("control")
    /\ AtStep("control").op = "join"
    /\ ~Running(AtStep("control").on)
    /\ lkAlive' = [lkAlive EXCEPT ![AtStep("control").on] = FALSE]
    /\ Advance("control")
    /\ UNCHANGED <<lkHolder, lkSession, sessionVars, ringUnitVars, writerUnitVars,
                   mixerUnitVars, flowUnitVars>>

\* ------------------------------------------------------------------ callbacks to payload
MaxFlowChunk == 2     \* chunk_size 1..MaxFlowChunk
MaxFlowCap == 3       \* mic ring capacity up to MaxFlowCap (system ring twice that)
MaxFlowIn == 4        \* frames delivered per side
MaxFlowBuf == 2       \* frames per callback

\* system samples are multiples of SysUnit and mic samples stay below it, so a
\* mixed sample mic + system shows both of its sources
SysUnit == MaxFlowIn + 1
\* the k-th mono sample the mic callbacks deliver
FlowMicSample(k) == k
\* the j-th interleaved sample the system callbacks deliver: frame k is samples 2k-1, 2k
FlowSystemSample(j) == SysUnit * j

FlowUnitIdle ==
    /\ flCfg = [enable_system_capture |-> FALSE, chunk_size |-> 1, buffer_capacity |-> 1]
    /\ flMic = RingNew(1)
    /\ flSys = RingNew(1)
    /\ flMicIn = 0
    /\ flSysIn = 0
    /\ flOverflow = [mic |-> FALSE, sys |-> FALSE, write |-> FALSE]
    /\ flPhase = "capturing"
    /\ flPc = "idle"
    /\ flFrames = 0
    /\ flSysRead = <<>>
    /\ flOut = <<>>

\* mic callback closure: n resampled samples written to the mic ring
FlMicCallback ==
    /\ flPhase = "capturing"
    /\ \E n \in 1..MaxFlowBuf :
          /\ flMicIn + n <= MaxFlowIn
          /\ flMic' = RingWrite(flMic, [i \in 1..n |-> FlowMicSample(flMicIn + i)])
          /\ flOverflow' = [flOverflow EXCEPT
                              !.mic = @ \/ RingCount(flMic) + n > flMic.capacity]
          /\ flMicIn' = flMicIn + n
    /\ UNCHANGED <<flCfg, flSys, flSysIn, flPhase, flPc, flFrames, flSysRead, flOut>>
    /\ UNCHANGED <<sessionVars, ringUnitVars, writerUnitVars, mixerUnitVars, lockUnitVars>>

\* a system callback that hands over a buffer with a half frame at its end
FlSystemCallback_HalfFrame ==
    /\ flPhase = "capturing"
    /\ flCfg.enable_system_capture
    /\ \E n \in 1..MaxFlowBuf :
          /\ flSysIn + n <= MaxFlowIn
          /\ flSys' = RingWrite(flSys, [i \in 1..(2 * n - 1) |->
                                           FlowSystemSample(2 * flSysIn + i)])
          /\ flOverflow' = [flOverflow EXCEPT
                              !.sys = @ \/ RingCount(flSys) + 2 * n - 1 > flSys.capacity]
          /\ flSysIn' = flSysIn + n
    /\ UNCHANGED <<flCfg, flMic, flMicIn, flPhase, flPc, flFrames, flSysRead, flOut>>
    /\ UNCHANGED <<sessionVars, ringUnitVars, writerUnitVars, mixerUnitVars, lockUnitVars>>

\* system callback closure: n resampled stereo frames written to the system ring
FlSystemCallback ==
    /\ flPhase = "capturing"
    /\ flCfg.enable_system_capture
    /\ \E n \in 1..MaxFlowBuf :
          /\ flSysIn + n <= MaxFlowIn
          /\ flSys' = RingWrite(flSys, [i \in 1..(2 * n) |->
                                           FlowSystemSample(2 * flSysIn + i)])
          /\ flOverflow' = [flOverflow EXCEPT
                              !.sys = @ \/ RingCount(flSys) + 2 * n > flSys.capacity]
          /\ flSysIn' = flSysIn + n
    /\ UNCHANGED <<flCfg, flMic, flMicIn, flPhase, flPc, flFrames, flSysRead, flOut>>
    /\ UNCHANGED <<sessionVars, ringUnitVars, writerUnitVars, mixerUnitVars, lockUnitVars>>

\* the pass just ended was the worker's, or the final one of stop_capture
FlPassEnds == flPhase' = IF flPhase = "flush" THEN "done" ELSE flPhase

\* a system-driven pass that goes on with a full chunk whatever the system ring holds
FlCount_AlwaysPasses ==
    /\ flPhase \in {"capturing", "flush"}
    /\ flPc = "idle"
    /\ flCfg.enable_system_capture
    /\ flPc' = "counted"
    /\ flFrames' = flCfg.chunk_size
    /\ UNCHANGED <<flCfg, flMic, flSys, flMicIn, flSysIn, flOverflow, flPhase, flSysRead,
                   flOut>>
    /\ UNCHANGED <<sessionVars, ringUnitVars, writerUnitVars, mixerUnitVars, lockUnitVars>>

\* process_buffers_inner, system-driven: count the frames, return when there are none
FlCount ==
    /\ flPhase \in {"capturing", "flush"}
    /\ flPc = "idle"
    /\ flCfg.enable_system_capture
    /\ LET frames == FramesToProcess(flSys, flCfg.chunk_size)
       IN IF frames = 0
          THEN FlPassEnds /\ UNCHANGED <<flPc, flFrames>>
          ELSE flPc' = "counted" /\ flFrames' = frames /\ UNCHANGED flPhase
    /\ UNCHANGED <<flCfg, flMic, flSys, flMicIn, flSysIn, flOverflow, flSysRead, flOut>>
    /\ UNCHANGED <<sessionVars, ringUnitVars, writerUnitVars, mixerUnitVars, lockUnitVars>>

\* system_samples = sys_buf.lock().read(frames_to_process * 2)
FlReadSystem ==
    /\ flPc = "counted"
    /\ LET sr == RingRead(flSys, flFrames * 2)
       IN flSys' = sr[1] /\ flSysRead' = sr[2]
    /\ flPc' = "read_system"
    /\ UNCHANGED <<flCfg, flMic, flMicIn, flSysIn, flOverflow, flPhase, flFrames, flOut>>
    /\ UNCHANGED <<sessionVars, ringUnitVars, writerUnitVars, mixerUnitVars, lockUnitVars>>

\* a pass that takes the mic samples from the start of the ring's storage
FlMix_ReadsFromStart ==
    /\ flPc = "read_system"
    /\ \E ok \in BOOLEAN :
          LET mr == RingRead_FromStart(flMic, flFrames)
              stereo == MixMicWithStereoSystem(mr[2], flSysRead)
          IN /\ flMic' = mr[1]
             /\ flOut' = IF ok THEN flOut \o stereo ELSE flOut
             /\ flOverflow' = [flOverflow EXCEPT !.write = @ \/ ~ok]
    /\ flSysRead' = <<>>
    /\ flFrames' = 0
    /\ flPc' = "idle"
    /\ FlPassEnds
    /\ UNCHANGED <<flCfg, flSys, flMicIn, flSysIn>>
    /\ UNCHANGED <<sessionVars, ringUnitVars, writerUnitVars, mixerUnitVars, lockUnitVars>>

\* mic_samples = mic_buf.lock().read(frames_to_process), then mix and write; the
\* block reaches the file unless the write fails
FlMix ==
    /\ flPc = "read_system"
    /\ \E ok \in BOOLEAN :
          LET mr == RingRead(flMic, flFrames)
              stereo == MixMicWithStereoSystem(mr[2], flSysRead)
          IN /\ flMic' = mr[1]
             /\ flOut' = IF ok THEN flOut \o stereo ELSE flOut
             /\ flOverflow' = [flOverflow EXCEPT !.write = @ \/ ~ok]
    /\ flSysRead' = <<>>
    /\ flFrames' = 0
    /\ flPc' = "idle"
    /\ FlPassEnds
    /\ UNCHANGED <<flCfg, flSys, flMicIn, flSysIn>>
    /\ UNCHANGED <<sessionVars, ringUnitVars, writerUnitVars, mixerUnitVars, lockUnitVars>>

\* process_buffers_inner, mic-only: read up to chunk_size samples, return when
\* there are none, else mix with an empty system side and write
FlMicOnly ==
    /\ flPhase \in {"capturing", "flush"}
    /\ flPc = "idle"
    /\ ~flCfg.enable_system_capture
    /\ \E ok \in BOOLEAN :
          LET mr == RingRead(flMic, flCfg.chunk_size)
              stereo == MixMicWithStereoSystem(mr[2], <<>>)
          IN /\ flMic' = mr[1]
             /\ flOut' = IF ok THEN flOut \o stereo ELSE flOut
             /\ flOverflow' = [flOverflow EXCEPT !.write = @ \/ (~ok /\ mr[2] # <<>>)]
    /\ FlPassEnds
    /\ UNCHANGED <<flCfg, flSys, flMicIn, flSysIn, flPc, flFrames, flSysRead>>
    /\ UNCHANGED <<sessionVars, ringUnitVars, writerUnitVars, mixerUnitVars, lockUnitVars>>

\* stop_capture up to the joins: the providers are stopped and the worker, which
\* finishes the pass it is in, has ended; the final pass comes next
FlStop ==
    /\ flPhase = "capturing"
    /\ flPc = "idle"
    /\ flPhase' = "flush"
    /\ UNCHANGED <<flCfg, flMic, flSys, flMicIn, flSysIn, flOverflow, flPc, flFrames,
                   flSysRead, flOut>>
    /\ UNCHANGED <<sessionVars, ringUnitVars, writerUnitVars, mixerUnitVars, lockUnitVars>>

\* ------------------------------------------------------------------ specification
Init ==
    /\ SessionInit
    /\ RingUnitIdle /\ WriterUnitIdle /\ MixerUnitIdle /\ LockUnitIdle /\ FlowUnitIdle

Next ==
    \/ SetDelegate
    \/ ConfigureRejected \/ ConfigureInvalid \/ ConfigureBegin \/ ConfigureApply
    \/ StartRejected \/ StartOpen \/ StartMic \/ StartSystem \/ StartMark \/ StartSpawn
    \/ PauseRejected \/ PauseBegin \/ PauseSet
    \/ ResumeRejected \/ ResumeBegin \/ ResumeSet
    \/ StopRejected \/ StopBegin \/ StopProviders \/ StopFlags \/ StopJoinProcessing
    \/ StopJoinTimer \/ StopFlush \/ StopClose \/ StopResult \/ StopFinished
    \/ StopReset
    \/ ProcExit \/ ProcWake \/ ProcPass \/ ProcMix
    \/ TimerExit \/ TimerWake \/ TimerEmit
    \/ MicCallback \/ SystemCallback
    \/ Drop
    \/ Tick

Spec == Init /\ [][Next]_vars

\* recordings from configure to stop, configured with or without an encryptor,
\* on a volume that may fail while the file is open
RecordNext ==
    \/ SetDelegate
    \/ ConfigureBegin \/ ConfigureBeginEncrypted \/ ConfigureApply
    \/ StartOpen \/ StartMic \/ StartSystem \/ StartMark \/ StartSpawn
    \/ StopBegin \/ StopProviders \/ StopFlags \/ StopJoinProcessing
    \/ StopJoinTimer \/ StopFlush \/ StopClose \/ StopResult \/ StopFinished
    \/ StopReset
    \/ ProcExit \/ ProcWake \/ ProcPass \/ ProcMix
    \/ TimerExit \/ TimerWake \/ TimerEmit
    \/ MicCallback \/ SystemCallback
    \/ DiskFails

RecordSpec == Init /\ [][RecordNext]_vars

\* a RingBuffer of any capacity 1..MaxCap driven by arbitrary write/read/reset calls
RingInit ==
    /\ SessionInit
    /\ WriterUnitIdle
    /\ MixerUnitIdle
    /\ LockUnitIdle
    /\ FlowUnitIdle
    /\ \E c \in 1..MaxCap : rb = RingNew(c)
    /\ rbWritten = 0
    /\ rbBase = 0
    /\ rbRead = <<>>
    /\ rbOverflow = FALSE
    /\ rbOp = [op |-> "new", n |-> 0, out |-> <<>>]

RingNext == RbWrite \/ RbRead \/ RbReset

RingSpec == RingInit /\ [][RingNext]_vars

\* an EncryptedFileWriter, with or without an encryptor, driven by arbitrary calls
WriterInit ==
    /\ SessionInit
    /\ RingUnitIdle
    /\ MixerUnitIdle
    /\ LockUnitIdle
    /\ FlowUnitIdle
    /\ \E enc \in BOOLEAN : fw = WriterNew(enc)
    /\ fwFile = None
    /\ fwHist = <<>>
    /\ fwIoFailed = FALSE
    /\ fwFailedAt = None
    /\ fwOp = [op |-> "new", val |-> "Ok", k |-> 0]

WriterNext == FwOpen \/ FwWriteClosed \/ FwWritePlain \/ FwWriteEncrypted \/ FwClose

WriterSpec == WriterInit /\ [][WriterNext]_vars

\* mix_mic_with_stereo_system applied to a mic and a system buffer of any length
MixerInit ==
    /\ SessionInit
    /\ RingUnitIdle
    /\ WriterUnitIdle
    /\ LockUnitIdle
    /\ FlowUnitIdle
    /\ mxMic \in SeqsUpTo(MixSamples, MaxMixFrames)
    /\ mxSys \in SeqsUpTo(MixSamples, 2 * MaxMixFrames + 1)
    /\ mxOut = None
    /\ mxPcm = None

MixerNext == MxMix \/ MxConvert

MixerSpec == MixerInit /\ [][MixerNext]_vars

\* the control thread, the two producer callbacks and the two workers, each
\* taking the mutexes its code takes
LockInit ==
    /\ SessionInit
    /\ RingUnitIdle
    /\ WriterUnitIdle
    /\ MixerUnitIdle
    /\ LockUnitIdle
    /\ FlowUnitIdle

LockNext == LkCall \/ LkIterate \/ LkLock \/ LkUnlock \/ LkStart \/ LkJoin

LockSpec == LockInit /\ [][LockNext]_vars

\* the samples of one recording on their way from the provider callbacks
\* through the rings and the mix passes to the payload; a pause is a stretch in
\* which the callbacks run and no pass does
FlowInit ==
    /\ SessionInit
    /\ RingUnitIdle
    /\ WriterUnitIdle
    /\ MixerUnitIdle
    /\ LockUnitIdle
    /\ \E enable \in BOOLEAN, chunk \in 1..MaxFlowChunk, capacity \in 2..MaxFlowCap :
          /\ chunk < capacity
          /\ flCfg = [enable_system_capture |-> enable, chunk_size |-> chunk,
                      buffer_capacity |-> capacity]
          /\ flMic = RingNew(capacity)
          /\ flSys = RingNew(capacity * 2)
    /\ flMicIn = 0
    /\ flSysIn = 0
    /\ flOverflow = [mic |-> FALSE, sys |-> FALSE, write |-> FALSE]
    /\ flPhase = "capturing"
    /\ flPc = "idle"
    /\ flFrames = 0
    /\ flSysRead = <<>>
    /\ flOut = <<>>

FlowNext ==
    \/ FlMicCallback \/ FlSystemCallback
    \/ FlCount \/ FlReadSystem \/ FlMix \/ FlMicOnly
    \/ FlStop

FlowSpec == FlowInit /\ [][FlowNext]_vars

\* one recording from configure to stop, with an optional pause, under a
\* scheduler that lets every thread run: a worker that is at a step it can take
\* eventually takes it, and so does a stop_capture in progress (provider stop
\* and the delegate callbacks return).  The fairness conditions are written on
\* the position each thread's steps change.
StopNext ==
    \/ SetDelegate
    \/ ConfigureBegin \/ ConfigureApply
    \/ StartOpen \/ StartMic \/ StartSystem \/ StartMark \/ StartSpawn
    \/ PauseBegin \/ PauseSet
    \/ StopBegin \/ StopProviders \/ StopFlags \/ StopJoinProcessing
    \/ StopJoinTimer \/ StopFlush \/ StopClose \/ StopResult \/ StopFinished
    \/ StopReset
    \/ ProcExit \/ ProcWake \/ ProcPass \/ ProcMix
    \/ TimerExit \/ TimerWake \/ TimerEmit
    \/ MicCallback \/ SystemCallback

\* the mix-loop worker leaves its loop once the flag is cleared, and finishes a
\* pass it has begun (ProcExit, ProcPass, ProcMix)
ProcRuns ==
    \/ procPc = "idle" /\ ~processing_running /\ procPc' = "exited"
    \/ procPc = "pass" /\ procPc' \in {"idle", "counted"}
    \/ procPc = "counted" /\ procPc' = "idle"

\* the timer worker leaves its loop once the flag is cleared, and delivers the
\* levels of an update it has made (TimerExit, TimerEmit)
TimerRuns ==
    \/ timerPc = "idle" /\ ~timer_running /\ timerPc' = "exited"
    \/ timerPc = "emit" /\ timerPc' = "idle"

\* stop_capture goes on; a join returns once its thread has ended
StopRuns ==
    \/ ctl = "stop_providers" /\ ctl' = "stop_flags"
    \/ ctl = "stop_flags" /\ ctl' = "stop_join_processing"
    \/ ctl = "stop_join_processing" /\ procPc \in {"none", "exited"}
          /\ ctl' = "stop_join_timer"
    \/ ctl = "stop_join_timer" /\ timerPc \in {"none", "exited"} /\ ctl' = "stop_flush"
    \/ ctl = "stop_flush" /\ ctl' = "stop_close"
    \/ ctl = "stop_close" /\ ctl' \in {"stop_result", "idle"}
    \/ ctl = "stop_result" /\ ctl' = "stop_finished"
    \/ ctl = "stop_finished" /\ ctl' = "stop_reset"
    \/ ctl = "stop_reset" /\ ctl' = "idle"

StopSpec ==
    /\ Init /\ [][StopNext]_vars
    /\ WF_procPc(ProcRuns) /\ WF_timerPc(TimerRuns) /\ WF_ctl(StopRuns)

\* ------------------------------------------------------------------ observations
ControlOps == {"configure", "start_capture", "pause_capture", "resume_capture",
               "stop_capture"}

\* the states in which each control method is permitted
Permitted(op) ==
    CASE op = "configure" -> {"Idle"}
      [] op = "start_capture" -> {"Ready"}
      [] op = "pause_capture" -> {"Capturing"}
      [] op = "resume_capture" -> {"Paused"}
      [] op = "stop_capture" -> {"Capturing", "Paused"}

\* the step a call enters when it does not return at once
FirstStep(op) ==
    CASE op = "configure" -> {"configure_apply"}
      [] op = "start_capture" -> {"start_mic"}
      [] op = "pause_capture" -> {"pause_set"}
      [] op = "resume_capture" -> {"resume_set"}
      [] op = "stop_capture" -> {"stop_providers"}

\* this step is the caller invoking `op`
CallStep(op) ==
    /\ ctl = "idle"
    /\ ret'.op = op \/ ctl' \in FirstStep(op)

Returned(op, val) == ret.op = op /\ ret.val = val

IsStateChanged(e) == e.ev = "state_changed"
IsFinished(e) == e.ev = "capture_finished"
IsCompleted(e) == e.ev = "state_changed" /\ e.tag = "Completed"

\* the tags of the on_state_changed calls the delegate received, in order
StateChangedTags ==
    LET sc == SelectSeq(log, IsStateChanged)
    IN [i \in 1..Len(sc) |-> sc[i].tag]

LegalTransitions ==
    {<<"Idle", "Configuring">>, <<"Configuring", "Ready">>, <<"Ready", "Capturing">>,
     <<"Capturing", "Paused">>, <<"Paused", "Capturing">>, <<"Capturing", "Stopping">>,
     <<"Paused", "Stopping">>, <<"Stopping", "Completed">>, <<"Stopping", "Failed">>,
     <<"Completed", "Idle">>}

\* ------------------------------------------------------------------ claims

\* C1: a control call made outside its permitted predecessor state returns
\* ConfigurationFailed at once and leaves the session state (tag and duration,
\* timing fields, diagnostics) exactly as it was.
C1_RejectedCallLeavesState ==
    [][\A op \in ControlOps :
          (CallStep(op) /\ state.tag \notin Permitted(op))
          => /\ ret' = Ret(op, "ConfigurationFailed")
             /\ ctl' = "idle"
             /\ state' = state
             /\ UNCHANGED <<sessVars, log>>]_vars

\* pause_capture was just rejected in Ready (the session is configured, not started)
C1_Witness ==
    /\ Returned("pause_capture", "ConfigurationFailed")
    /\ state.tag = "Ready"

\* C2: every change of the state's variant is one of the listed transitions.
C2_OnlyLegalTransitions ==
    [][state'.tag # state.tag => <<state.tag, state'.tag>> \in LegalTransitions]_vars

\* a capture with a pause and a resume has completed and the state is Idle again
C2_Witness ==
    /\ Returned("stop_capture", "Ok")
    /\ state.tag = "Idle"
    /\ \E i \in DOMAIN log : log[i].tag = "Paused"
    /\ Len(SelectSeq(log, IsStateChanged)) >= 7

\* C3: a stop_capture that fails after Stopping leaves the state Failed and
\* delivers the error through delegate.on_error.
C3_StopFailureSurfacesFailed ==
    Returned("stop_capture", "StorageError")
    => /\ state.tag = "Failed"
       /\ \E i \in DOMAIN log : log[i].ev = "error"

\* a full lifecycle configure, start, pause, resume, stop in which every call succeeded
LifecycleDone ==
    /\ Returned("stop_capture", "Ok")
    /\ calls = 5
    /\ Cardinality({i \in DOMAIN log : IsStateChanged(log[i]) /\ log[i].tag = "Capturing"}) = 2

\* C4: after the full lifecycle the state is Idle and the delegate received one
\* on_state_changed per transition, in order, Completed -> Idle included.
C4_LifecycleNotifiesEveryTransition ==
    LifecycleDone
    => /\ state.tag = "Idle"
       /\ StateChangedTags = <<"Configuring", "Ready", "Capturing", "Paused",
                               "Capturing", "Stopping", "Completed", "Idle">>

\* C5 (state part): a stop_capture that returned Ok left the state Idle and its
\* last delegate call was on_capture_finished with the returned result; the
\* delegate has received one on_capture_finished per Completed state.
C5_FinishedOncePerOkStop ==
    /\ Returned("stop_capture", "Ok")
       => /\ state.tag = "Idle"
          /\ log # <<>>
          /\ log[Len(log)] = Event("capture_finished", "Completed", ret.duration_secs)
    /\ Len(SelectSeq(log, IsFinished))
         = Len(SelectSeq(log, IsCompleted)) - (IF ctl = "stop_finished" THEN 1 ELSE 0)

\* C5 (step part): on_capture_finished is invoked only by stop_capture, right
\* after on_state_changed(Completed) and while the state is still Completed.
C5_FinishedOnlyInStop ==
    (Len(SelectSeq(log', IsFinished)) # Len(SelectSeq(log, IsFinished)))
    => /\ ctl = "stop_finished"
       /\ log' = Append(log, Event("capture_finished", "Completed", state.duration_secs))
       /\ log[Len(log)] = Event("state_changed", "Completed", state.duration_secs)
       /\ state.tag = "Completed" /\ state'.tag = "Completed"

\* C5: every stop_capture that returns Ok invokes on_capture_finished exactly
\* once, with the result it returns, after on_state_changed(Completed) and
\* before the reset to Idle; nothing else invokes it.
C5_CaptureFinished ==
    [](C5_FinishedOncePerOkStop) /\ [][C5_FinishedOnlyInStop]_vars

\* stop_capture just returned Ok
C5_Witness ==
    /\ Returned("stop_capture", "Ok")
    /\ Len(SelectSeq(log, IsFinished)) = 1

\* C6: the returned duration_secs is the time from start_capture to
\* stop_capture (anywhere between its invocation and its return) minus the
\* time the state was Paused.
C6_DurationExcludesPauses ==
    Returned("stop_capture", "Ok")
    => /\ ret.duration_secs >= (stopInvokedAt - Get(capture_start)) - pausedTicks
       /\ ret.duration_secs <= (clock - Get(capture_start)) - pausedTicks

\* C7: while the state is Paused no mix pass runs: nothing is written to the
\* writer and no mix cycle (ring reads, mix, write) is performed.
C7_NoMixWhilePaused ==
    [][state.tag = "Paused"
       => /\ writer' = writer
          /\ diag'.mix_cycles = diag.mix_cycles
          /\ diag'.bytes_written = diag.bytes_written]_vars

\* C8: once the orchestrator is dropped no provider runs and both workers
\* have terminated.
C8_DropTearsDown ==
    dropped
    => /\ ~mic_running /\ ~system_running
       /\ procPc \in {"none", "exited"}
       /\ timerPc \in {"none", "exited"}

\* C9: when a provider's start fails, start_capture returns the provider's
\* error, the state stays Ready (unchanged) and no worker has been spawned.
C9_ProviderStartFailure ==
    [][(ctl \in {"start_mic", "start_system"} /\ ctl' = "idle")
       => /\ ret'.op = "start_capture"
          /\ ret'.val = (IF (ctl = "start_mic" /\ mic_running)
                            \/ (ctl = "start_system" /\ system_running)
                         THEN "ConfigurationFailed" ELSE "Unknown")
          /\ state.tag = "Ready" /\ state' = state
          /\ log' = log
          /\ procPc' = "none" /\ timerPc' = "none"
          /\ ~processing_running' /\ ~timer_running']_vars

\* the system provider's start failed after the mic provider had started
C9_Witness ==
    /\ Returned("start_capture", "Unknown")
    /\ state.tag = "Ready"
    /\ mic_running /\ ~system_running
    /\ procPc = "none" /\ timerPc = "none"

\* C10: a start_capture that fails has released what it acquired: no provider
\* runs and the writer is not open.
C10_FailedStartReleases ==
    (ret.op = "start_capture" /\ ret.val # "Ok" /\ state.tag = "Ready")
    => /\ ~mic_running /\ ~system_running
       /\ writer = None \/ ~Get(writer).is_open

\* ------------------------------------------------------------------ RingBuffer claims
\* samples written / returned since the last reset
TotalWritten == rbWritten - rbBase
TotalRead == Len(rbRead)
\* the samples written since the last reset, oldest first
WrittenSeq == [i \in 1..TotalWritten |-> rbBase + i]
\* written samples that no read returned and that are no longer buffered
Dropped ==
    {k \in (rbBase + 1)..rbWritten :
        /\ \A i \in DOMAIN rbRead : rbRead[i] # k
        /\ \A i \in DOMAIN Contents(rb) : Contents(rb)[i] # k}

\* C11: for capacity C >= 1, after any sequence of write, read and reset calls,
\* 0 <= available <= C, both indices are in [0, C) and
\* write_index = (read_index + available) mod C.
C11_RingInvariant ==
    /\ rb.capacity >= 1
    /\ 0 <= rb.available /\ rb.available <= rb.capacity
    /\ rb.read_index \in 0..(rb.capacity - 1)
    /\ rb.write_index \in 0..(rb.capacity - 1)
    /\ rb.write_index = (rb.read_index + rb.available) % rb.capacity

\* a write has just overflowed a ring whose head is not at the start of the storage
C11_Witness ==
    /\ rbOp.op = "write"
    /\ rbOverflow
    /\ rb.available = rb.capacity
    /\ rb.read_index # 0
    /\ rb.capacity > 1

\* C12 (state part): while no write had to drop samples, the samples returned
\* by the reads followed by the samples still buffered are the samples written,
\* in order.
C12_FifoState ==
    ~rbOverflow => rbRead \o Contents(rb) = WrittenSeq

\* C12 (step part): read(n) returns the min(n, count) oldest samples and
\* removes them; reset leaves count 0 and a read after it returns nothing.
C12_FifoStep ==
    /\ rbOp'.op = "read"
       => LET q == Contents(rb)
              k == Min(rbOp'.n, RingCount(rb))
          IN /\ rbOp'.out = SubSeq(q, 1, k)
             /\ Contents(rb') = SubSeq(q, k + 1, Len(q))
             /\ rbRead' = rbRead \o rbOp'.out
    /\ rbOp'.op = "reset" => RingCount(rb') = 0 /\ rbRead' = <<>>
    /\ (rbOp.op = "reset" /\ rbOp'.op = "read")
       => rbOp'.out = <<>> /\ RingCount(rb') = 0

\* C12: without overflow the reads return, in order, a prefix of what was
\* written; read(n) returns and removes the min(n, count) oldest samples; after
\* reset count is 0 and reads return nothing until the next write.
C12_RingFifo ==
    [](C12_FifoState) /\ [][C12_FifoStep]_vars

\* more samples than the capacity have gone through the ring, in order, with
\* no overflow, and some are still buffered
C12_Witness ==
    /\ ~rbOverflow
    /\ rbOp.op = "read"
    /\ TotalRead > rb.capacity
    /\ RingCount(rb) > 0

\* C13: a write of s onto contents q leaves the last min(C, |q|+|s|) elements
\* of q followed by s: the oldest max(0, |q|+|s|-C) elements are dropped (the
\* head index moves by that much when |s| <= C), and a write longer than C
\* keeps only its last C samples.
C13_WriteDropsOldest ==
    [][rbOp'.op = "write"
       => LET q == Contents(rb)
              n == rbOp'.n
              s == [i \in 1..n |-> rbWritten + i]
              c == rb.capacity
              drop == Max(0, Len(q) + n - c)
          IN /\ rbWritten' = rbWritten + n
             /\ Contents(rb') = SubSeq(q \o s, drop + 1, Len(q) + n)
             /\ RingCount(rb') = Min(c, Len(q) + n)
             /\ n <= c => rb'.read_index = (rb.read_index + drop) % c
             /\ n > c => Contents(rb') = SubSeq(s, n - c + 1, n)]_vars

\* a write longer than the capacity has just landed on a ring that held unread samples
C13_Witness ==
    /\ rbOp.op = "write"
    /\ rbOp.n > rb.capacity
    /\ TotalWritten - rbOp.n > TotalRead
    /\ rb.capacity > 1

\* C14 as stated: whenever total_written > capacity + total_read, the samples
\* the reads never return are exactly total_written - capacity - total_read
\* many, and they are the oldest ones.
C14_DroppedCountAsStated ==
    TotalWritten > rb.capacity + TotalRead
    => /\ Cardinality(Dropped) = TotalWritten - rb.capacity - TotalRead
       /\ \A d \in Dropped : \A i \in DOMAIN Contents(rb) : d < Contents(rb)[i]

\* C14 amended: the reads return an in-order subsequence of the samples
\* written; the samples dropped so far number total_written - total_read -
\* count, which is at least total_written - capacity - total_read, with
\* equality exactly when the ring is full; every dropped sample is older than
\* every sample still buffered.
C14_DroppedCount ==
    LET out == rbRead \o Contents(rb)
    IN /\ \A i, j \in DOMAIN out : i < j => out[i] < out[j]
       /\ \A i \in DOMAIN out : out[i] \in (rbBase + 1)..rbWritten
       /\ Cardinality(Dropped) = TotalWritten - TotalRead - RingCount(rb)
       /\ Cardinality(Dropped) >= TotalWritten - rb.capacity - TotalRead
       /\ (Cardinality(Dropped) = TotalWritten - rb.capacity - TotalRead)
          <=> (RingCount(rb) = rb.capacity)
       /\ \A d \in Dropped : \A i \in DOMAIN Contents(rb) : d < Contents(rb)[i]

\* samples were dropped, a read followed, and the ring is no longer full
C14_Witness ==
    /\ TotalWritten > rb.capacity + TotalRead
    /\ RingCount(rb) < rb.capacity
    /\ TotalRead > 0

\* ------------------------------------------------------------------ EncryptedFileWriter claims
\* this step is a call of `op` returning `val`
FwStep(op, val) ==
    /\ fwOp'.k = fwOp.k + 1
    /\ fwOp'.op = op
    /\ fwOp'.val = val

\* size of the file on disk
FileSize(f) == WideAdd(Wide(f.header_len), PayloadSize(f.payload))

RECURSIVE HistBytes(_)
\* total length of what the successful writes since open appended
HistBytes(h) ==
    IF h = <<>> THEN Wide(0) ELSE WideAdd(h[1].out.len, HistBytes(Tail(h)))

RECURSIVE HistConcat(_)
\* the written buffers one after the other
HistConcat(h) ==
    IF h = <<>> THEN <<>>
    ELSE (IF h[1].out.len = Wide(0) THEN <<>> ELSE <<h[1].out>>) \o HistConcat(Tail(h))

\* the plaintext writer was opened, every write since succeeded, and close returned Ok
PlainClosedOk ==
    /\ ~fw.encrypted
    /\ fwOp.op = "close" /\ fwOp.val = "Ok"
    /\ ~fwIoFailed

\* C15: plaintext writer, after open, successful writes totalling N bytes and
\* close: the file is 44 + N bytes, its payload is the written buffers in call
\* order, the data-size field is N, the RIFF size field is 36 + N; and
\* bytes_written reports 44 + N while the writer is open.
C15_PlainFileLayout ==
    /\ PlainClosedOk
       => LET f == Get(fwFile)
              n == HistBytes(fwHist)
          IN /\ FileSize(f) = WideAdd(Wide(WAV_HEADER_SIZE), n)
             /\ f.payload = HistConcat(fwHist)
             /\ FromLeBytes(f.data_size) = n
             /\ FromLeBytes(f.riff_size) = WideAdd(Wide(36), n)
    /\ (~fw.encrypted /\ fw.is_open /\ ~fwIoFailed)
       => fw.total_bytes_written = WideAdd(Wide(WAV_HEADER_SIZE), HistBytes(fwHist))

\* the little-endian bytes of a length, written out
LengthPrefix(len) ==
    <<Run(len.lo % 256, Wide(1)), Run((len.lo \div 256) % 256, Wide(1)),
      Run(len.hi % 256, Wide(1)), Run((len.hi \div 256) % 256, Wide(1))>>

RECURSIVE HistRecords(_)
\* the records of the successful writes, one after the other
HistRecords(h) ==
    IF h = <<>> THEN <<>>
    ELSE LengthPrefix(h[1].out.len)
         \o (IF h[1].out.len = Wide(0) THEN <<>> ELSE <<h[1].out>>)
         \o HistRecords(Tail(h))

RECURSIVE Walk(_, _)
\* walk the length prefixes of a payload: [ok, out] with the sealed chunks found
Walk(p, acc) ==
    IF p = <<>> THEN [ok |-> TRUE, out |-> acc]
    ELSE IF Len(p) < 4 \/ \E i \in 1..4 : p[i].len # Wide(1)
    THEN [ok |-> FALSE, out |-> acc]
    ELSE LET n == FromLeBytes(<<p[1].byte, p[2].byte, p[3].byte, p[4].byte>>)
         IN IF n = Wide(0)
            THEN Walk(SubSeq(p, 5, Len(p)), Append(acc, Run(0, Wide(0))))
            ELSE IF Len(p) >= 5 /\ p[5].len = n
            THEN Walk(SubSeq(p, 6, Len(p)), Append(acc, p[5]))
            ELSE [ok |-> FALSE, out |-> acc]

\* C16 (state part): an encrypted file all of whose writes succeeded is the
\* 44-byte header followed by one record per write, in call order, of size
\* 44 + sum(4 + len_i); walking the length prefixes recovers exactly the
\* sealed outputs and ends at end of file.
C16_EncryptedFile ==
    (fw.encrypted /\ fwFile # None /\ ~fwIoFailed)
    => LET f == Get(fwFile)
       IN /\ f.header_len = WAV_HEADER_SIZE
          /\ f.payload = HistRecords(fwHist)
          /\ FileSize(f) = WideAdd(Wide(WAV_HEADER_SIZE + 4 * Len(fwHist)),
                                   HistBytes(fwHist))
          /\ Walk(f.payload, <<>>) =
                [ok |-> TRUE, out |-> [i \in 1..Len(fwHist) |-> fwHist[i].out]]

\* C16 (step part): each successful write appends exactly one record, the
\* length prefix followed by what the encryptor returned for the input.
C16_EncryptedWrite ==
    (fw.encrypted /\ FwStep("write", "Ok"))
    => /\ Len(fwHist') = Len(fwHist) + 1
       /\ LET e == fwHist'[Len(fwHist')]
          IN /\ e.out \in Sealed(e.data)
             /\ Get(fwFile').payload =
                   Get(fwFile).payload \o LengthPrefix(e.out.len)
                   \o (IF e.out.len = Wide(0) THEN <<>> ELSE <<e.out>>)
             /\ fw'.total_bytes_written =
                   WideAdd(fw.total_bytes_written, WideAdd(Wide(4), e.out.len))

\* C16: encrypted writer: each successful write appends one record
\* [u32 LE length][sealed bytes]; after k writes the file is the header and
\* the k records in call order, and the length prefixes recover the sealed
\* outputs exactly.
C16_EncryptedRecords ==
    [](C16_EncryptedFile) /\ [][C16_EncryptedWrite]_vars

\* two chunks of different sizes, one of them empty, have been written
C16_Witness ==
    /\ fw.encrypted
    /\ ~fwIoFailed
    /\ fwOp.op = "write" /\ fwOp.val = "Ok"
    /\ Len(fwHist) >= 2
    /\ fwHist[1].out.len # fwHist[2].out.len

\* C17: write and close on a writer that is not open (never opened, or
\* already closed) return StorageError and touch neither the file nor
\* bytes_written.
C17_NotOpenRejected ==
    [][\A op \in {"write", "close"} :
          (~fw.is_open /\ fwOp'.k = fwOp.k + 1 /\ fwOp'.op = op)
          => /\ fwOp'.val = "StorageError"
             /\ fwFile' = fwFile
             /\ fw' = fw
             /\ fwHist' = fwHist]_vars

\* a write was rejected on a writer that had been opened, written and closed
C17_Witness ==
    /\ fwOp.op = "write"
    /\ fwOp.val = "StorageError"
    /\ ~fw.is_open /\ ~fw.has_file
    /\ fwFile # None
    /\ ~fwIoFailed
    /\ Len(fwHist) > 0

\* ------------------------------------------------------------------ session claims (continued)
\* C18: after every stop_capture that returns Ok the metadata sidecar
\* <recording_path>.metadata.json exists.
C18_SidecarWritten ==
    Returned("stop_capture", "Ok") => metadata_file

ZeroDiagnostics ==
    [mic_callback_count |-> 0, system_callback_count |-> 0,
     mic_samples_total |-> 0, system_samples_total |-> 0,
     bytes_written |-> 0, mix_cycles |-> 0]

\* C19: a successful configure leaves every diagnostics counter at zero.
C19_ConfigureResetsDiagnostics ==
    [][(ctl = "configure_apply" /\ ret' = Ret("configure", "Ok"))
       => diag' = ZeroDiagnostics]_vars

\* C20: configure in Idle with a configuration that fails validation returns
\* ConfigurationFailed in one step: the state stays Idle, no on_state_changed
\* is emitted, and the stored configuration and the ring buffers are kept.
C20_InvalidConfigRejected ==
    [][(CallStep("configure") /\ state.tag = "Idle" /\ ret'.op = "configure"
        /\ ret'.val # "Ok")
       => /\ ret' = Ret("configure", "ConfigurationFailed")
          /\ state' = state /\ state'.tag = "Idle"
          /\ ctl' = "idle"
          /\ log' = log
          /\ config' = config
          /\ UNCHANGED <<ringVars, sessVars>>]_vars

\* an invalid configuration was rejected on an orchestrator that still holds
\* the configuration of a completed session
C20_Witness ==
    /\ Returned("configure", "ConfigurationFailed")
    /\ state.tag = "Idle"
    /\ config # None
    /\ \E i \in DOMAIN log : log[i].ev = "capture_finished"

\* ------------------------------------------------------------------ session claims (C21..C30)
\* the stored configuration disables both capture sources
BothDisabled ==
    /\ config # None
    /\ ~Get(config).enable_mic_capture
    /\ ~Get(config).enable_system_capture

\* the file of an empty recording: the 44-byte header alone, data size 0
EmptyRecording == [size |-> WAV_HEADER_SIZE, data_size |-> Wide(0), payload |-> <<>>]

\* C21: a configuration that disables both the microphone and the system
\* capture is accepted by configure; a session run with it starts no provider,
\* buffers and writes nothing, and after start_capture and stop_capture the
\* finalized file is exactly the 44-byte header with data size 0.
C21_EmptyRecording ==
    BothDisabled
    => /\ ~mic_running /\ ~system_running
       /\ RingCount(mic_buffer) = 0 /\ RingCount(system_buffer) = 0
       /\ writer # None
          => /\ Get(writer).payload = <<>>
             /\ Get(writer).total_bytes_written = WAV_HEADER_SIZE
       /\ Returned("stop_capture", "Ok") => recording = Some(EmptyRecording)

\* configure accepted the configuration and a session run with it has completed
C21_Witness ==
    /\ BothDisabled
    /\ Returned("stop_capture", "Ok")
    /\ recording # None
    /\ \E i \in DOMAIN log : log[i].ev = "levels_updated"

\* ------------------------------------------------------------------ StereoMixer claims

\* s[i] with i counted from 0, and 0 where s has no such sample
SampleOrZero(s, i) == IF i < Len(s) THEN s[i + 1] ELSE 0

\* C22: mix_mic_with_stereo_system(mic, sys) returns max(|mic|, |sys| div 2)
\* stereo frames; frame i has left = mic[i] + sys[2i] and right = mic[i] +
\* sys[2i+1], every missing sample counting as zero.  With an empty system
\* input there is one frame per mic sample, in mic order, with left = right =
\* that mic sample.
C22_MixFrames ==
    mxOut # None =>
        LET out == Get(mxOut)
            frames == Max(Len(mxMic), Len(mxSys) \div 2)
        IN /\ Len(out) = 2 * frames
           /\ \A i \in 0..(frames - 1) :
                 /\ out[2 * i + 1] = SampleOrZero(mxMic, i) + SampleOrZero(mxSys, 2 * i)
                 /\ out[2 * i + 2] = SampleOrZero(mxMic, i) + SampleOrZero(mxSys, 2 * i + 1)
           /\ mxSys = <<>> =>
                 /\ Len(out) = 2 * Len(mxMic)
                 /\ \A i \in 1..Len(mxMic) :
                       out[2 * i - 1] = mxMic[i] /\ out[2 * i] = mxMic[i]

\* a mic input longer than a system input that ends in half a frame has been mixed
C22_Witness ==
    /\ mxOut # None
    /\ Len(mxSys) = 3
    /\ Len(mxMic) = 2
    /\ Len(Get(mxOut)) = 4

\* the dot-separated file name ends in .enc.wav
EndsInEncWav(n) == Len(n) >= 3 /\ n[Len(n) - 1] = "enc" /\ n[Len(n)] = "wav"

\* C23: for every completed recording these are equivalent: an encryptor was
\* configured; the output file name ends in .enc.wav; metadata.is_encrypted is
\* true; metadata.encryption_algorithm is present.  Without an encryptor the
\* name ends in .wav and has no .enc. infix.
C23_EncryptedNaming ==
    Returned("stop_capture", "Ok") =>
        LET enc == Get(config).encryptor
            n == ret.file_name
        IN /\ enc <=> EndsInEncWav(n)
           /\ enc <=> ret.is_encrypted
           /\ enc <=> (ret.encryption_algorithm # None)
           /\ ~enc => /\ n[Len(n)] = "wav"
                      /\ \A i \in 2..(Len(n) - 1) : n[i] # "enc"
           /\ file_path = Some(n)

\* a recording with an encryptor has completed with audio sealed into the file
C23_Witness ==
    /\ Returned("stop_capture", "Ok")
    /\ Get(config).encryptor
    /\ recording # None
    /\ Get(recording).payload # <<>>

\* stop_capture has set Stopping and not yet set Completed
StopTeardown == {"stop_providers", "stop_flags", "stop_join_processing",
                 "stop_join_timer", "stop_flush", "stop_close", "stop_result"}

\* where stop_capture stands, step by step
C24_Order ==
    /\ ctl \in StopTeardown => state.tag = "Stopping"
    \* providers are stopped before the workers are signalled
    /\ ctl \in StopTeardown \ {"stop_providers"} => ~mic_running /\ ~system_running
    \* both flags are cleared before the first join
    /\ ctl \in StopTeardown \ {"stop_providers", "stop_flags"} =>
          ~processing_running /\ ~timer_running
    \* both workers have ended before the final mix pass
    /\ ctl = "stop_join_timer" => procPc = "none"
    /\ ctl \in {"stop_flush", "stop_close", "stop_result", "stop_finished", "stop_reset"} =>
          /\ procPc = "none" /\ timerPc = "none"
          /\ ~mic_running /\ ~system_running
    \* the writer is still open during the final mix pass and until it is closed
    /\ ctl \in {"stop_flush", "stop_close"} => writer # None /\ Get(writer).is_open
    \* the writer has been closed before Completed is set
    /\ ctl \in {"stop_result", "stop_finished", "stop_reset"} =>
          writer = None /\ recording # None
    /\ ctl \in {"stop_finished", "stop_reset"} => state.tag = "Completed"
    \* a closed writer: no thread is in, or can begin, a mix pass
    /\ (writer = None \/ ~Get(writer).is_open) =>
          /\ procPc = "none" /\ ~processing_running
          /\ ctl \notin {"stop_providers", "stop_flags", "stop_join_processing",
                         "stop_join_timer", "stop_flush"}

\* what a step may do while stop_capture is past its joins
C24_Step ==
    \* only the control thread touches the rings, the diagnostics and the writer
    /\ ctl \in {"stop_flush", "stop_close", "stop_result", "stop_finished", "stop_reset"}
          /\ (ringVars' # ringVars \/ diag' # diag \/ writer' # writer)
       => ctl' # ctl
    \* the final pass is one pass, and no callback is counted during it
    /\ ctl = "stop_flush" /\ ctl' # ctl =>
          /\ ctl' = "stop_close"
          /\ diag'.mix_cycles \in {diag.mix_cycles, diag.mix_cycles + 1}
          /\ diag'.mic_callback_count = diag.mic_callback_count
          /\ diag'.system_callback_count = diag.system_callback_count
    \* nothing reads the rings or writes after the final pass
    /\ ctl \in {"stop_close", "stop_result", "stop_finished", "stop_reset"} =>
          /\ ringVars' = ringVars
          /\ diag' = diag
          /\ writer' # writer =>
                /\ ctl = "stop_close"
                /\ Get(recording').payload = Get(writer).payload
    \* the file, once closed, is not written again: only the next start_capture,
    \* which names a new file, leaves it behind
    /\ recording # None /\ recording' # recording =>
          CallStep("start_capture") /\ recording' = None

\* C24: stop_capture sets Stopping, stops both providers (no callback runs
\* afterwards), signals and joins both workers, runs one final mix pass, closes
\* the writer and sets Completed, in that order; the final mix pass never
\* overlaps a producer callback or a worker's pass, and nothing is written to
\* the writer after it is closed.
C24_StopOrder == [](C24_Order) /\ [][C24_Step]_vars

\* the final mix pass has written a block and the writer has then been closed
C24_Witness ==
    /\ ctl = "stop_result"
    /\ recording # None
    /\ Get(recording).payload # <<>>
    /\ diag.mix_cycles >= 2

\* C25: the final synchronous mix pass flushes what is left in the rings: at
\* the moment the writer is closed no frame remains buffered in the system
\* ring (in mic-only mode, the mic ring) that has not been written.
C25_FlushDrainsRing ==
    ctl = "stop_result" =>
        IF Get(config).enable_system_capture
        THEN RingCount(system_buffer) \div 2 = 0
        ELSE RingCount(mic_buffer) = 0

\* C26: the duration_secs that stop_capture reports is the elapsed duration
\* sampled at the moment stop_capture is invoked, before the providers are
\* stopped, the workers joined and the writer finalized.
C26_DurationAtInvocation ==
    Returned("stop_capture", "Ok") =>
        ret.duration_secs = (stopInvokedAt - Get(capture_start)) - paused_duration

\* the worker's locals between its count and its reads
C27_Counted ==
    procPc = "counted" =>
        /\ Get(config).enable_system_capture
        /\ procFrames = Min(procAvailable, ChunkSize(Get(config)))
        /\ procFrames > 0
        \* producers may have appended since the count; nothing was removed
        /\ procAvailable <= RingCount(system_buffer) \div 2

\* this step removes the 2*frames oldest system samples and the (at most)
\* `frames` oldest mic samples and appends one block of 4*frames bytes to the file
PassTakes(frames) ==
    /\ Contents(system_buffer') =
          SubSeq(Contents(system_buffer), 2 * frames + 1, RingCount(system_buffer))
    /\ RingCount(system_buffer') = RingCount(system_buffer) - 2 * frames
    /\ LET k == Min(frames, RingCount(mic_buffer))
       IN Contents(mic_buffer') = SubSeq(Contents(mic_buffer), k + 1, RingCount(mic_buffer))
    /\ writer # None /\ writer' # None
    /\ Len(Get(writer').payload) = Len(Get(writer).payload) + 4 * frames
    /\ SubSeq(Get(writer').payload, 1, Len(Get(writer).payload)) = Get(writer).payload
    /\ Get(writer').total_bytes_written = Get(writer).total_bytes_written + 4 * frames
    /\ diag'.bytes_written = diag.bytes_written + 4 * frames
    /\ diag'.mix_cycles = diag.mix_cycles + 1

\* this step reads nothing and writes nothing
PassTakesNothing ==
    /\ ringVars' = ringVars
    /\ writer' = writer
    /\ diag' = diag

C27_Pass ==
    LET count == RingCount(system_buffer)
        frames == Min(count \div 2, ChunkSize(Get(config)))
    IN \* the worker's count
       /\ procPc = "pass" /\ procPc' # procPc /\ Get(config).enable_system_capture =>
             /\ PassTakesNothing
             /\ procPc' = IF frames = 0 THEN "idle" ELSE "counted"
             /\ frames > 0 => procFrames' = frames /\ procAvailable' = count \div 2
       \* the worker's reads, mix and write
       /\ procPc = "counted" /\ procPc' # procPc =>
             /\ PassTakes(procFrames)
             /\ procPc' = "idle"
       \* the final pass of stop_capture, count and reads together
       /\ ctl = "stop_flush" /\ ctl' # ctl /\ Get(config).enable_system_capture =>
             IF frames = 0 THEN PassTakesNothing ELSE PassTakes(frames)

C28_LoopAlive ==
    /\ procPc \in {"idle", "pass", "counted"} => writer # None /\ Get(writer).is_open
    /\ procPc = "exited" => ~processing_running

\* a step in which a write error is logged
C28_WriteError ==
    Len(error_log') > Len(error_log) =>
        \* the session state is as it was and nothing is reported
        /\ state' = state
        /\ UNCHANGED <<capture_start, paused_duration, last_pause_time>>
        /\ log' = log
        /\ ret' = NoRet
        \* the writer stays open and holds what it held
        /\ writer' = writer
        /\ Get(writer).is_open
        \* the loop goes on: the worker is back at its sleep, its flag as it was
        /\ processing_running' = processing_running
        /\ ctl' = ctl => procPc' = "idle"
        \* the rings were read and the pass was counted all the same
        /\ diag'.mix_cycles = diag.mix_cycles + 1

\* the flag of the mix loop is cleared by stop_capture only
C28_FlagStep ==
    processing_running /\ ~processing_running' => ctl = "stop_flags"

TimerUpdate == timerPc = "idle" /\ timerPc' = "emit"

C29_TimerStep ==
    \* the timer's update replaces Capturing{d} by Capturing{d'}, in one step
    /\ TimerUpdate =>
          /\ state.tag = "Capturing"
          /\ state' = StDur("Capturing", ElapsedDuration(clock))
    \* every other step of the timer leaves the state alone
    /\ timerPc' # timerPc /\ ~TimerUpdate /\ ctl' = ctl => state' = state
    \* a state that is not Capturing changes only by a step of a control call
    /\ state.tag # "Capturing" /\ state' # state => ctl' # ctl
    \* and a Capturing state keeps its variant unless a control call changes it
    /\ state.tag = "Capturing" /\ state'.tag # "Capturing" => ctl' # ctl

\* C29: the timer worker never changes the state variant: it only replaces
\* Capturing{d} by Capturing{d'}, atomically under the session lock, and under
\* every interleaving with pause_capture, resume_capture and stop_capture it
\* never overwrites a Paused, Stopping, Completed or Idle state.
C29_TimerKeepsVariant == [][C29_TimerStep]_vars

\* pause_capture or stop_capture has run between the timer's update and its
\* on_levels_updated, and the timer is still running
C29_Witness ==
    /\ timerPc = "emit"
    /\ timer_running
    /\ state.tag \in {"Paused", "Stopping"}

\* ------------------------------------------------------------------ mutex claims

\* the mutexes thread t holds
Held(t) == {m \in Mutexes : lkHolder[m] = t}

\* thread t is about to call lock(), and on which mutex
AtLock(t) == Running(t) /\ AtStep(t).op = "lock"
Wanted(t) == AtStep(t).on

\* thread t waits for a mutex that another thread (or t itself) holds
Blocked(t) == AtLock(t) /\ lkHolder[Wanted(t)] # "free"

\* the thread reached from t by following `waits for the holder` k times
RECURSIVE WaitChain(_, _)
WaitChain(t, k) ==
    IF k = 0 THEN t
    ELSE IF ~Blocked(t) THEN "none"
    ELSE WaitChain(lkHolder[Wanted(t)], k - 1)

\* t is on a cycle of threads each waiting for a mutex the next one holds
Deadlocked(t) == \E k \in 1..Cardinality(Threads) : WaitChain(t, k) = t

\* C30: no thread acquires another mutex while it holds a ring-buffer mutex,
\* and no thread acquires the writer mutex while it holds the session-state
\* mutex; no reachable state is a deadlock among the four mutexes.
C30_LockDiscipline ==
    /\ \A t \in Threads :
          AtLock(t) => Held(t) \cap {"mic_buffer", "system_buffer"} = {}
    /\ \A t \in Threads :
          AtLock(t) /\ Wanted(t) = "writer" => "session_state" \notin Held(t)
    /\ \A t \in Threads : ~Deadlocked(t)

\* all four mutexes are in use at once: the mix loop writes to the file while
\* both callbacks are in their rings and the control thread waits for the
\* session state, which the timer holds
C30_Witness ==
    /\ lkHolder["writer"] = "processing"
    /\ lkHolder["mic_buffer"] = "mic_callback"
    /\ lkHolder["system_buffer"] = "system_callback"
    /\ lkHolder["session_state"] = "timer"
    /\ Blocked("control")

\* ------------------------------------------------------------------ termination claims

\* what a worker may do once its flag is cleared, and who ends a worker
C31_WorkerStep ==
    \* a worker at its loop condition with the flag cleared begins no further
    \* iteration: its next step leaves the loop
    /\ ~processing_running /\ procPc = "idle" /\ procPc' # procPc => procPc' = "exited"
    /\ ~timer_running /\ timerPc = "idle" /\ timerPc' # timerPc => timerPc' = "exited"
    \* an iteration in progress ends at the loop condition
    /\ procPc = "counted" /\ procPc' # procPc => procPc' = "idle"
    /\ timerPc = "emit" /\ timerPc' # timerPc => timerPc' = "idle"
    \* a join returns only for a thread that has ended
    /\ ctl = "stop_join_processing" /\ ctl' # ctl =>
          procPc \in {"none", "exited"} /\ procPc' = "none"
    /\ ctl = "stop_join_timer" /\ ctl' # ctl =>
          timerPc \in {"none", "exited"} /\ timerPc' = "none"

\* the flags are cleared and stop_capture waits for the mix-loop worker
FlagsCleared == ctl = "stop_join_processing"

\* C31: after stop_capture clears the two running flags, the mix-loop worker
\* and the timer worker each observe the flag and exit within one further
\* iteration, both joins return, and stop_capture eventually returns (under
\* fair scheduling).
C31_StopTerminates ==
    /\ [][C31_WorkerStep]_vars
    /\ FlagsCleared ~> (procPc \in {"none", "exited"} /\ timerPc \in {"none", "exited"})
    /\ FlagsCleared ~> (ctl = "stop_join_timer")
    /\ (ctl = "stop_join_timer") ~> (ctl = "stop_flush")
    /\ (ctl \in StopSteps) ~> (ctl = "idle" /\ ret.op = "stop_capture")

\* stop_capture waits in its first join while the mix-loop worker is between
\* its count and its reads and the timer worker has yet to deliver its levels
C31_Witness ==
    /\ FlagsCleared
    /\ procPc = "counted"
    /\ timerPc = "emit"

\* ------------------------------------------------------------------ session claims (C32..)
\* the writer slot holds an open writer whose file starts with the 44-byte header
WriterOpen ==
    /\ writer # None
    /\ Get(writer).is_open
    /\ Get(writer).total_bytes_written >= WAV_HEADER_SIZE

\* this step is a mix pass reading the rings: the worker's or the final one
MixPassStep ==
    \/ procPc \in {"pass", "counted"} /\ procPc' # procPc
    \/ ctl = "stop_flush" /\ ctl' # ctl

\* where start_capture stands, and what holds while the workers are alive
C32_Order ==
    \* the writer is open, header written, from the first provider start on
    /\ ctl \in {"start_mic", "start_system", "start_mark", "start_spawn"} => WriterOpen
    \* the state is still Ready, and no worker exists, while the providers start
    /\ ctl \in {"start_mic", "start_system", "start_mark"} =>
          /\ state.tag = "Ready"
          /\ procPc = "none" /\ timerPc = "none"
    \* the state is Capturing when the workers are spawned
    /\ ctl = "start_spawn" => state.tag = "Capturing" /\ procPc = "none" /\ timerPc = "none"
    /\ procPc # "none" \/ timerPc # "none" => state.tag \in {"Capturing", "Paused", "Stopping"}
    \* a live mix loop has an open writer in the slot
    /\ procPc \in {"idle", "pass", "counted"} => WriterOpen
    \* what the file holds is the header followed by the blocks written
    /\ writer # None =>
          Get(writer).total_bytes_written = WAV_HEADER_SIZE + Len(Get(writer).payload)

C32_Step ==
    \* a provider is started by start_capture, after the writer, before Capturing
    /\ ~mic_running /\ mic_running' =>
          ctl = "start_mic" /\ WriterOpen /\ state.tag = "Ready"
    /\ ~system_running /\ system_running' =>
          ctl = "start_system" /\ WriterOpen /\ state.tag = "Ready"
    \* Ready becomes Capturing after both provider starts
    /\ state.tag = "Ready" /\ state'.tag # "Ready" =>
          ctl = "start_mark" /\ state' = StDur("Capturing", 0)
    \* the workers are spawned in state Capturing
    /\ procPc = "none" /\ procPc' # "none" => ctl = "start_spawn" /\ state.tag = "Capturing"
    /\ timerPc = "none" /\ timerPc' # "none" => ctl = "start_spawn" /\ state.tag = "Capturing"
    \* a mix pass finds the writer, and only a mix pass takes samples from a ring
    /\ MixPassStep => WriterOpen
    /\ (RingCount(mic_buffer') < RingCount(mic_buffer)
          \/ RingCount(system_buffer') < RingCount(system_buffer))
       /\ ctl # "configure_apply"
       => MixPassStep
    \* a block written by a mix pass is appended behind what the file held
    /\ MixPassStep /\ writer' # writer =>
          /\ writer' # None
          /\ Len(Get(writer').payload) > Len(Get(writer).payload)
          /\ SubSeq(Get(writer').payload, 1, Len(Get(writer).payload)) = Get(writer).payload

\* C32: start_capture opens the writer (44-byte header written) before
\* starting either provider, starts the providers before setting the state to
\* Capturing, and spawns the mix-loop and timer workers only after the state
\* is Capturing; so every PCM block a mix pass writes lands after the header,
\* and no mix pass consumes ring samples while the writer is absent.
C32_StartOrder == [](C32_Order) /\ [][C32_Step]_vars

\* both providers run, the state is Capturing and a mix pass of the worker has
\* written a block
C32_Witness ==
    /\ mic_running /\ system_running
    /\ state.tag = "Capturing"
    /\ procPc = "idle"
    /\ writer # None
    /\ Get(writer).payload # <<>>
    /\ diag.mic_callback_count > 0

\* ------------------------------------------------------------------ flow claims
\* a sequence of numbers that only goes up
Increasing(s) == \A i, j \in DOMAIN s : i < j => s[i] < s[j]

NonZero(x) == x # 0
Audible(f) == f # <<0, 0>>

FlowOutFrames == Len(flOut) \div 2
\* the mic sample mixed into the left and the right sample of output frame i
FlowMicOfLeft(i) == flOut[2 * i - 1] % SysUnit
FlowMicOfRight(i) == flOut[2 * i] % SysUnit
\* the system frame mixed into output frame i
FlowSystemOf(i) == <<flOut[2 * i - 1] - FlowMicOfLeft(i), flOut[2 * i] - FlowMicOfRight(i)>>

\* the mic samples in the payload, in file order (silence padding left out)
FlowOutMic == SelectSeq([i \in 1..FlowOutFrames |-> FlowMicOfLeft(i)], NonZero)
\* the system frames in the payload, in file order (silent frames left out)
FlowOutSystem == SelectSeq([i \in 1..FlowOutFrames |-> FlowSystemOf(i)], Audible)

\* the k-th stereo frame the system callbacks delivered
FlowSystemFrame(k) == <<FlowSystemSample(2 * k - 1), FlowSystemSample(2 * k)>>
\* the delivery number of a frame made of a left and the right sample after it
FlowFrameNo(f) == f[2] \div (2 * SysUnit)

\* what is still on its way: in the ring, or read by the pass in progress
FlowMicPending == Contents(flMic)
FlowSystemPending == flSysRead \o Contents(flSys)

C33_MicInOrder ==
    /\ Len(flOut) % 2 = 0
    /\ \A i \in 1..FlowOutFrames : FlowMicOfLeft(i) = FlowMicOfRight(i)
    /\ \A i \in DOMAIN FlowOutMic : FlowOutMic[i] \in 1..flMicIn
    \* in delivery order without repetition, and ahead of what is still pending
    /\ Increasing(FlowOutMic \o FlowMicPending)
    \* nothing is missing unless a ring overflowed or a write failed
    /\ ~flOverflow.mic /\ ~flOverflow.write =>
          FlowOutMic \o FlowMicPending = [k \in 1..flMicIn |-> FlowMicSample(k)]

C33_SystemInOrder ==
    \* each frame of the payload is a frame as delivered: its left, then its right
    /\ \A i \in DOMAIN FlowOutSystem :
          /\ FlowFrameNo(FlowOutSystem[i]) \in 1..flSysIn
          /\ FlowOutSystem[i] = FlowSystemFrame(FlowFrameNo(FlowOutSystem[i]))
    /\ Increasing([i \in DOMAIN FlowOutSystem |-> FlowFrameNo(FlowOutSystem[i])])
    /\ Increasing([i \in DOMAIN FlowOutSystem |-> FlowOutSystem[i][2]] \o FlowSystemPending)
    /\ ~flOverflow.sys /\ ~flOverflow.write =>
          LET samples == [j \in 1..(2 * Len(FlowOutSystem)) |->
                             FlowOutSystem[(j + 1) \div 2][2 - (j % 2)]]
          IN samples \o FlowSystemPending
               = [j \in 1..(2 * flSysIn) |-> FlowSystemSample(j)]

\* C33: the frames in the payload are, for each side, an in-order subsequence
\* of the resampled frames that side's callbacks delivered: under every
\* interleaving of callbacks, mix passes, pauses and the final pass, frames are
\* never reordered or duplicated, only dropped.
C33_InOrderSubsequence == C33_MicInOrder /\ C33_SystemInOrder

\* the recording has ended with both rings having overflowed, and the payload
\* holds frames on either side of a dropped one, on both sides
C33_Witness ==
    /\ flPhase = "done"
    /\ flOverflow.mic /\ flOverflow.sys /\ ~flOverflow.write
    /\ \E i \in DOMAIN FlowOutMic :
          i > 1 /\ FlowOutMic[i] > FlowOutMic[i - 1] + 1
    /\ \E i \in DOMAIN FlowOutSystem :
          i > 1 /\ FlowFrameNo(FlowOutSystem[i]) > FlowFrameNo(FlowOutSystem[i - 1]) + 1


\* the newest samples a mic ring of the configured capacity can hold
FlowNewestMic ==
    LET held == Min(flMicIn, flCfg.buffer_capacity)
    IN [i \in 1..held |-> FlowMicSample(flMicIn - held + i)]

\* with system capture enabled and nothing delivered on the system side
C34_Silent ==
    flCfg.enable_system_capture /\ flSysIn = 0 =>
       /\ flOut = <<>>
       /\ flPc = "idle"
       /\ Contents(flMic) = FlowNewestMic

\* with system capture enabled, a step that takes mic samples or writes a
\* block belongs to a pass that found and read at least one system frame
C34_Step ==
    flCfg.enable_system_capture
    /\ (RingCount(flMic') < RingCount(flMic) \/ flOut' # flOut)
    => /\ flPc = "read_system"
       /\ flFrames >= 1
       /\ Len(flSysRead) = 2 * flFrames

\* C34: when enable_system_capture is true, mic samples reach the file only in
\* passes where the system ring holds at least one frame; if the system side
\* delivers nothing, no audio is ever written however many mic samples arrive,
\* and the mic ring drops its oldest samples once full.
C34_SystemDrivesMic == [](C34_Silent) /\ [][C34_Step]_vars

\* the recording has ended, the system side delivered nothing and the mic side
\* more than its ring holds
C34_Witness ==
    /\ flCfg.enable_system_capture
    /\ flPhase = "done"
    /\ flSysIn = 0
    /\ flMicIn > flCfg.buffer_capacity
    /\ flOverflow.mic


\* ------------------------------------------------------------------ conversion claims
\* i16::from_le_bytes
I16FromLeBytes(lo, hi) ==
    LET u == lo + 256 * hi
    IN IF u >= 32768 THEN u - 65536 ELSE u

\* the 16-bit value the conversion emitted for sample i of its input
PcmValue(i) == I16FromLeBytes(Get(mxPcm)[2 * i - 1], Get(mxPcm)[2 * i])

\* C35: convert_to_int16_pcm emits exactly 2 bytes per input sample and
\* saturates instead of wrapping: every emitted 16-bit value lies in
\* [-32767, 32767] (never -32768), inputs >= 1.0 map to 32767 and inputs
\* <= -1.0 map to -32767, so a mix whose sum exceeds full scale is clipped.
C35_PcmSaturates ==
    mxPcm # None =>
        LET stereo == Get(mxOut)
        IN /\ Len(Get(mxPcm)) = 2 * Len(stereo)
           /\ \A k \in DOMAIN Get(mxPcm) : Get(mxPcm)[k] \in 0..255
           /\ \A i \in DOMAIN stereo :
                 /\ PcmValue(i) \in (-INT16_MAX)..INT16_MAX
                 /\ stereo[i] >= FullScale => PcmValue(i) = INT16_MAX
                 /\ stereo[i] <= -FullScale => PcmValue(i) = -INT16_MAX
                 \* inside full scale: the scaled value, cut toward zero
                 /\ stereo[i] \in (-FullScale)..FullScale =>
                       PcmValue(i) = TruncDiv(stereo[i] * INT16_MAX, FullScale)

\* a converted mix with a sum above full scale, one below minus full scale
\* and one strictly inside
C35_Witness ==
    /\ mxPcm # None
    /\ \E i \in DOMAIN Get(mxOut) : Get(mxOut)[i] > FullScale
    /\ \E i \in DOMAIN Get(mxOut) : Get(mxOut)[i] < -FullScale
    /\ \E i \in DOMAIN Get(mxOut) : Get(mxOut)[i] \in 1..(FullScale - 1)


\* ------------------------------------------------------------------ writer claims (continued)
\* the call just made is a write for which the encryptor returned an error
C36_EncryptFailedStep == fwOp'.k = fwOp.k + 1 /\ fwOp'.val = "EncryptionFailed"

C36_Step ==
    \* the failed write leaves the file, bytes_written and the open flag alone
    /\ C36_EncryptFailedStep =>
          /\ fwOp'.op = "write"
          /\ fw.encrypted /\ fw.is_open
          /\ fwFile' = fwFile
          /\ fw' = fw
          /\ fwHist' = fwHist
    \* a successful write after it appends one whole record behind the last one
    /\ fwFailedAt # None /\ FwStep("write", "Ok") =>
          LET e == fwHist'[Len(fwHist')]
          IN /\ Get(fwFile').payload = Get(fwFile).payload \o Record(e.out)
             /\ fw'.total_bytes_written =
                   WideAdd(fw.total_bytes_written, WideAdd(Wide(4), e.out.len))

\* after encryptor errors the file is still the header and the records of the
\* successful writes, with nothing in between
C36_File ==
    fwFailedAt # None /\ ~fwIoFailed =>
       /\ fw.encrypted
       /\ Get(fwFailedAt) <= Len(fwHist)
       /\ Get(fwFile).header_len = WAV_HEADER_SIZE
       /\ Get(fwFile).payload = HistRecords(fwHist)
       /\ Walk(Get(fwFile).payload, <<>>).ok
       /\ FileSize(Get(fwFile)) =
             WideAdd(Wide(WAV_HEADER_SIZE + 4 * Len(fwHist)), HistBytes(fwHist))

\* C36: when the encryptor returns an error for a chunk, write returns
\* EncryptionFailed and appends neither the length prefix nor any payload
\* byte: the file and bytes_written are unchanged, the writer stays open, and
\* a later successful write produces a well-formed record directly after the
\* previous one.
C36_EncryptErrorWritesNothing == [](C36_File) /\ [][C36_Step]_vars

\* one record, then a write whose encryption failed, then a second record
C36_Witness ==
    /\ fwFailedAt = Some(1)
    /\ ~fwIoFailed
    /\ fwOp.op = "write" /\ fwOp.val = "Ok"
    /\ Len(fwHist) = 2
    /\ fw.is_open


\* ------------------------------------------------------------------ session claims (C37..)
\* C37: between start_capture and the completion of stop_capture, the
\* duration_secs carried by the state (Capturing and Paused) never decreases,
\* under every interleaving of timer updates with pause and resume.
C37_DurationMonotone ==
    [][state.tag \in {"Capturing", "Paused"} /\ state'.tag \in {"Capturing", "Paused"}
         => state'.duration_secs >= state.duration_secs]_vars


\* a system sample that a callback delivered as the left sample of its frame
FlowIsLeft(x) == (x \div SysUnit) % 2 = 1
\* left samples at the odd positions (even offsets), right samples at the others
FlowFrameAligned(s) ==
    /\ Len(s) % 2 = 0
    /\ \A i \in DOMAIN s : FlowIsLeft(s[i]) <=> i % 2 = 1

\* C38: when every system callback delivers an even number of samples, the
\* system ring's count and read index are even in every reachable state (its
\* capacity is twice the mic ring's), so after any overflow and any mix-pass
\* read the sample at an even offset of what is read is a left-channel sample:
\* left and right never swap.
C38_SystemRingAligned ==
    /\ flSys.capacity = 2 * flMic.capacity
    /\ RingCount(flSys) % 2 = 0
    /\ flSys.read_index % 2 = 0
    /\ FlowFrameAligned(Contents(flSys))
    /\ FlowFrameAligned(flSysRead)
    /\ \A i \in 1..FlowOutFrames :
          \/ FlowSystemOf(i) = <<0, 0>>
          \/ FlowIsLeft(FlowSystemOf(i)[1]) /\ ~FlowIsLeft(FlowSystemOf(i)[2])

\* a pass has just read frames from a system ring that has overflowed and whose
\* head has moved off the start of the storage; one block is already written
C38_Witness ==
    /\ flOverflow.sys
    /\ flPc = "read_system"
    /\ Len(flSysRead) >= 2
    /\ flSys.read_index # 0
    /\ RingCount(flSys) > 0
    /\ flOut # <<>>


\* the rings hold no frame for a pass configured by c
NoFrames(c) ==
    IF c.enable_system_capture
    THEN RingCount(system_buffer) \div 2 = 0
    ELSE RingCount(mic_buffer) = 0

\* bytes a successful write of an n-byte block adds to the file
RecordSize(w, n) == IF w.encrypted THEN 4 + 12 + n + 16 ELSE n

RECURSIVE PlaintextSizes(_)
\* the plaintext sizes of the records of an encrypted payload, from the
\* length prefixes; <<-1>> ends the result where the payload is malformed
PlaintextSizes(p) ==
    IF p = <<>> THEN <<>>
    ELSE IF Len(p) < 4 THEN <<-1>>
    ELSE LET n == p[1] + 256 * p[2] + 65536 * p[3] + 16777216 * p[4]
         IN IF n < 28 \/ Len(p) < 4 + n THEN <<-1>>
            ELSE <<n - 28>> \o PlaintextSizes(SubSeq(p, 5 + n, Len(p)))

\* a PCM block of f stereo 16-bit frames, 1 <= f <= chunk_size
WholeFrames(n, c) == n > 0 /\ n % 4 = 0 /\ n \div 4 <= ChunkSize(c)

C39_Step ==
    MixPassStep /\ config # None =>
       LET c == Get(config)
           n == diag'.bytes_written - diag.bytes_written
       IN \* a pass that goes as far as the write carries whole frames
          /\ diag'.mix_cycles # diag.mix_cycles =>
                /\ diag'.mix_cycles = diag.mix_cycles + 1
                /\ WholeFrames(n, c)
          \* the file changes by that block, or not at all when the write fails
          /\ writer' # writer =>
                /\ diag'.mix_cycles = diag.mix_cycles + 1
                /\ Get(writer').total_bytes_written =
                      Get(writer).total_bytes_written + RecordSize(Get(writer), n)
          \* no frames: no write, no diagnostics
          /\ (ctl = "stop_flush" \/ (procPc = "pass" /\ procPc' = "idle")) /\ NoFrames(c) =>
                /\ diag' = diag
                /\ writer' = writer

\* every record of an encrypted file seals a block of whole frames
C39_Records ==
    writer # None /\ Get(writer).encrypted /\ config # None =>
       LET sizes == PlaintextSizes(Get(writer).payload)
       IN \A i \in DOMAIN sizes : WholeFrames(sizes[i], Get(config))

LevelsDelivered ==
    /\ Len(log') = Len(log) + 1
    /\ log'[Len(log')].ev = "levels_updated"

\* no levels update follows on_state_changed(Paused) or on_state_changed(Stopping)
\* in the delegate's view, unless on_state_changed(Capturing) came in between
C40_DelegateView ==
    \A i, j \in DOMAIN log :
       (/\ i < j
        /\ IsStateChanged(log[i]) /\ log[i].tag \in {"Paused", "Stopping"}
        /\ log[j].ev = "levels_updated")
       => \E k \in (i + 1)..(j - 1) : IsStateChanged(log[k]) /\ log[k].tag = "Capturing"

\* C40: every on_levels_updated call reaches the delegate while the state is
\* Capturing: under every interleaving of the timer with pause_capture and
\* stop_capture, the delegate never receives a levels update after
\* on_state_changed(Paused) (until the next resume) or on_state_changed(Stopping).
C40_LevelsOnlyWhileCapturing ==
    [](C40_DelegateView) /\ [][LevelsDelivered => state.tag = "Capturing"]_vars

====
